---------------------------- MODULE Spec2Model ----------------------------
(***************************************************************************)
(* Model of the receipt extraction-and-scoring engine of autoexpense       *)
(* (backend/app/services/parser.py, backend/app/utils/scoring.py,          *)
(* candidates.py, money.py) and of its ingestion service                   *)
(* (backend/app/services/ingestion.py, email.py, storage.py).              *)
(*                                                                         *)
(* The module holds several specifications over one set of variables:      *)
(*   Spec          parse() called by concurrent callers on one shared      *)
(*                 ReceiptParser instance (IngestionService keeps one).    *)
(*   SpecSeq       the same calls made one after the other by one caller.  *)
(*   SpecTail      the end of parse(): amount validation, confidence,      *)
(*                 review candidates and the review gate.                  *)
(*   SpecSelect    the selectors of scoring.py and the block of the        *)
(*                 extract_* methods that records a selection.             *)
(*   SpecCurrency  extract_currency.                                       *)
(*   SpecTax       extract_tax.                                            *)
(*   SpecScore     the four candidate scorers of scoring.py.               *)
(*   SpecNormalize _normalize_ocr_spaces.                                  *)
(*   SpecAmount    extract_amount.                                         *)
(*   SpecVendor    extract_vendor on a forwarded email.                    *)
(*   SpecMoney     parse_money.                                            *)
(*   SpecUpsert    IngestionService._upsert_receipt_record.                *)
(*   SpecEmail     IngestionService.process_email and _process_source,     *)
(*                 run for one message up to MaxRuns times.                *)
(*   SpecEmailFair SpecEmail, where a started call runs to its return.     *)
(*   SpecOrder     a selector applied to a candidate list and to a         *)
(*                 reordering of it.                                       *)
(*   SpecForward   score_vendor_candidate for a forwarded and for a        *)
(*                 non-forwarded message.                                  *)
(*   SpecDate      the locale, candidate and score of extract_date.        *)
(* Variables a specification does not use keep their initial value.        *)
(*                                                                         *)
(* Numbers are fixed-point: money in cents, candidate scores in            *)
(* millionths, the weighted confidence sum in units of 1/10000, and the    *)
(* two-decimal scores the parser records in hundredths.                    *)
(***************************************************************************)
EXTENDS Integers, Sequences, FiniteSets, TLC

VARIABLES
    cache,      \* ReceiptParser._forwarded_email_cache: cache key -> bool
    pc,         \* per caller: position inside parse()
    calls,      \* per caller: number of parse() calls started
    text,       \* per caller: the text argument of the running call
    ctx,        \* per caller: the context argument of the running call
    isfwd,      \* per caller: is_forwarded as extract_vendor obtained it
    outcome,    \* per caller: how the last parse() call ended
    stage,      \* position of the run of the function under study
    doc,        \* what that run reads from the text
    result,     \* the result dict of that run
    debug,      \* the debug dict of that run
    selected    \* what the selector of that run returned

parserVars == <<cache, pc, calls, text, ctx, isfwd, outcome>>

runVars == <<stage, doc, result, debug, selected>>

vars == <<cache, pc, calls, text, ctx, isfwd, outcome,
          stage, doc, result, debug, selected>>

(***************************************************************************)
(* Python values.  None is the empty tuple and a value v that may be None  *)
(* is the tuple <<v>>.  A dict is a function whose domain is its key set.  *)
(* Money is a whole number of cents; a recorded score (round(score, 2)) is *)
(* a whole number of hundredths.                                           *)
(***************************************************************************)
None == << >>

Some(v) == <<v>>

\* d.get(k, default)
Get(d, k, default) == IF k \in DOMAIN d THEN d[k] ELSE default

\* d[k] = v
Put(d, k, v) == [x \in DOMAIN d \cup {k} |-> IF x = k THEN v ELSE d[x]]

Max(a, b) == IF a >= b THEN a ELSE b

Min(a, b) == IF a <= b THEN a ELSE b

Abs(a) == IF a >= 0 THEN a ELSE 0 - a

(***************************************************************************)
(* Bounds of the model.                                                    *)
(***************************************************************************)
MaxCalls == 2

Callers == {"t1", "t2"}

(***************************************************************************)
(* Input texts.  _detect_forwarded_email reads two windows of the text:    *)
(* text[:500] (the cache key) and text[:1000] (the forwarding patterns).   *)
(* A text is its first 500 characters (head, one of a few sample           *)
(* documents) and whether characters 500..999 hold a forwarding marker.    *)
(***************************************************************************)
Heads == {"empty", "symbols", "binary", "receipt", "fwd_receipt", "long_receipt"}

\* heads whose text[:500] matches one of the forwarding_patterns
HeadHasForwardMarker(h) == h = "fwd_receipt"

\* heads of at least 500 characters, so that text[500:1000] is not empty
HeadIsLong(h) == h = "long_receipt"

Texts == {t \in [head : Heads, tailMarker : BOOLEAN] :
              t.tailMarker => HeadIsLong(t.head)}

(***************************************************************************)
(* ParseContext: None, or a record whose sender_domain is a personal mail  *)
(* domain or a merchant domain (a context whose sender_domain is unset is  *)
(* read by _detect_forwarded_email exactly as None is).                    *)
(***************************************************************************)
NoContext == [given |-> FALSE, sender_domain |-> "none"]

Contexts == {NoContext} \cup
            [given : {TRUE}, sender_domain : {"gmail.com", "uber.com"}]

PersonalDomains == {"gmail.com", "yahoo.com", "outlook.com", "hotmail.com",
                    "icloud.com", "me.com", "live.com", "aol.com"}

\* cache_key = hash(text[:500])
CacheKey(t) == t.head

\* the body of _detect_forwarded_email below the cache lookup
ComputeForwarded(t, c) ==
    \/ HeadHasForwardMarker(t.head)
    \/ t.tailMarker
    \/ (c.given /\ c.sender_domain # "none" /\ c.sender_domain \in PersonalDomains)

(***************************************************************************)
(* The selector call of extract_vendor.  scoring.select_best_vendor takes  *)
(* one parameter; extract_vendor passes three more by keyword.  Python     *)
(* raises TypeError for an unexpected keyword argument, and extract_vendor *)
(* catches only re.error, AttributeError and IndexError.                   *)
(***************************************************************************)
SelectBestVendorParams == {"candidates"}

ExtractVendorSelectArgs == {"candidates", "is_forwarded", "context", "return_score"}

ExtractVendorCaught == {"re.error", "AttributeError", "IndexError"}

\* what calling a function of parameters params with arguments args raises
CallRaises(params, args) == IF args \subseteq params THEN "none" ELSE "TypeError"

\* the exception that leaves extract_vendor ("none": it returns)
ExtractVendorEscapes ==
    LET e == CallRaises(SelectBestVendorParams, ExtractVendorSelectArgs)
    IN  IF e \in ExtractVendorCaught THEN "none" ELSE e

(***************************************************************************)
(* Initial state: a parser just constructed, every caller idle.            *)
(***************************************************************************)
NoText == [head |-> "empty", tailMarker |-> FALSE]

InitParser ==
    /\ cache = << >>
    /\ pc = [c \in Callers |-> "idle"]
    /\ calls = [c \in Callers |-> 0]
    /\ text = [c \in Callers |-> NoText]
    /\ ctx = [c \in Callers |-> NoContext]
    /\ isfwd = [c \in Callers |-> FALSE]
    /\ outcome = [c \in Callers |-> "none"]

\* no part of parse() is run on its own
NoRun ==
    /\ stage = "none"
    /\ doc = None
    /\ result = None
    /\ debug = None
    /\ selected = None

Init == InitParser /\ NoRun

\* parse(text, context) is entered; _normalize_ocr_spaces runs (it cannot raise)
ParseCall(c) ==
    /\ pc[c] \in {"idle", "done"}
    /\ calls[c] < MaxCalls
    /\ \E t \in Texts, x \in Contexts :
          /\ text' = [text EXCEPT ![c] = t]
          /\ ctx' = [ctx EXCEPT ![c] = x]
    /\ calls' = [calls EXCEPT ![c] = @ + 1]
    /\ pc' = [pc EXCEPT ![c] = "detect"]
    /\ outcome' = [outcome EXCEPT ![c] = "running"]
    /\ UNCHANGED <<cache, isfwd>>
    /\ UNCHANGED runVars

\* _detect_forwarded_email up to the cache lookup: a hit returns the entry
DetectForwardedLookup(c) ==
    /\ pc[c] = "detect"
    /\ LET k == CacheKey(text[c]) IN
         IF k \in DOMAIN cache
         THEN /\ isfwd' = [isfwd EXCEPT ![c] = cache[k]]
              /\ pc' = [pc EXCEPT ![c] = "select"]
         ELSE /\ isfwd' = [isfwd EXCEPT ![c] = ComputeForwarded(text[c], ctx[c])]
              /\ pc' = [pc EXCEPT ![c] = "store"]
    /\ UNCHANGED <<cache, calls, text, ctx, outcome>>
    /\ UNCHANGED runVars

\* _detect_forwarded_email after a miss: the result is stored under the key
DetectForwardedStore(c) ==
    /\ pc[c] = "store"
    /\ cache' = [k \in DOMAIN cache \cup {CacheKey(text[c])} |->
                    IF k = CacheKey(text[c]) THEN isfwd[c] ELSE cache[k]]
    /\ pc' = [pc EXCEPT ![c] = "select"]
    /\ UNCHANGED <<calls, text, ctx, isfwd, outcome>>
    /\ UNCHANGED runVars

\* extract_vendor reaches its selector call; what escapes it leaves parse()
ExtractVendorSelect(c) ==
    /\ pc[c] = "select"
    /\ outcome' = [outcome EXCEPT ![c] =
                      IF ExtractVendorEscapes = "none" THEN "returned"
                      ELSE ExtractVendorEscapes]
    /\ pc' = [pc EXCEPT ![c] = "done"]
    /\ UNCHANGED <<cache, calls, text, ctx, isfwd>>
    /\ UNCHANGED runVars

Step(c) ==
    \/ ParseCall(c)
    \/ DetectForwardedLookup(c)
    \/ DetectForwardedStore(c)
    \/ ExtractVendorSelect(c)

Next == \E c \in Callers : Step(c)

Spec == Init /\ [][Next]_vars

\* one caller, one call after the other
NextSeq == Step("t1")

SpecSeq == Init /\ [][NextSeq]_vars

(***************************************************************************)
(* The end of parse(): _validate_amount_consistency, _calculate_confidence,*)
(* _capture_review_candidates and _requires_review, run in that order on   *)
(* the result and debug dicts the extract_* methods leave behind.  No      *)
(* parse() call gets this far (ExtractVendorEscapes), so SpecTail starts   *)
(* these methods from every combination of field values, recorded scores   *)
(* and warnings below.                                                     *)
(***************************************************************************)
Fields == {"amount", "vendor", "date", "currency", "tax"}

ReviewFields == {"vendor", "amount", "date", "currency"}

\* weights of _calculate_confidence, in hundredths
Weights == [amount |-> 35, vendor |-> 25, date |-> 25, currency |-> 5, tax |-> 10]

\* confidence_per_field.get(field, 0.5) of _calculate_confidence
PresenceBonus == 50

\* 0.05 per warning and the cap 0.1, in units of 1/10000
WarningPenalty == 500

MaxPenalty == 1000

\* the threshold 0.7 of _requires_review and _capture_review_candidates
ReviewThreshold == 70

\* Decimal('0.01') as a divisor and Decimal('0.02') in cents
TolerancePercentDivisor == 100

ToleranceFloorCents == 2

\* the first match of the two subtotal_patterns of
\* _validate_amount_consistency: the 'sub total' pattern, else 'before tax'
FindSubtotal(d) ==
    IF d.subtotal # None THEN d.subtotal ELSE d.before_tax

\* Decimal truthiness: `not x` holds for None and for zero
Falsy(x) == x = None \/ x[1] = 0

\* _validate_amount_consistency: the amount_validation entry it records,
\* None when it returns before recording
AmountValidation(amount, tax, d) ==
    IF Falsy(amount) \/ Falsy(tax) THEN None
    ELSE IF Falsy(FindSubtotal(d)) THEN None
    ELSE LET subtotal == FindSubtotal(d)[1]
             calculated_total == subtotal + tax[1]
             \* tolerance and difference in units of 1/100 cent
             tolerance == Max(amount[1], ToleranceFloorCents * TolerancePercentDivisor)
         IN  Some([subtotal |-> subtotal,
                   tax |-> tax[1],
                   calculated_total |-> calculated_total,
                   extracted_total |-> amount[1],
                   tolerance |-> tolerance,
                   is_consistent |->
                       Abs(calculated_total - amount[1]) * TolerancePercentDivisor
                           <= tolerance])

\* round(score, 2) of a score in units of 1/10000: a score half way
\* between two hundredths goes where its binary floating-point value lies,
\* which the fixed-point score does not tell, so both are outcomes
Round2(x) ==
    IF x % 100 = 50 THEN {x \div 100, x \div 100 + 1}
    ELSE {(x + 50) \div 100}

\* sum of weight * field_confidence over the listed fields, units 1/10000
RECURSIVE WeightedSum(_, _, _)
WeightedSum(fs, r, conf) ==
    IF fs = {} THEN 0
    ELSE LET f == CHOOSE x \in fs : TRUE
         IN  (IF r[f] # None
              THEN Weights[f] * Get(conf, f, PresenceBonus)
              ELSE 0)
             + WeightedSum(fs \ {f}, r, conf)

\* ConfidenceScore without the warning penalty
ConfidenceScoreNoPenalty(r, dbg) ==
    Max(0, Min(10000, WeightedSum(Fields, r, dbg.confidence_per_field)))

\* _calculate_confidence before the final round(score, 2)
ConfidenceScore(r, dbg) ==
    LET score == WeightedSum(Fields, r, dbg.confidence_per_field)
        penalty == IF Len(dbg.warnings) > 0
                   THEN Min(MaxPenalty, Len(dbg.warnings) * WarningPenalty)
                   ELSE 0
    IN  Max(0, Min(10000, score - penalty))

\* _calculate_confidence: the values it can return, in hundredths
CalculateConfidence(r, dbg) == Round2(ConfidenceScore(r, dbg))

\* _capture_review_candidates: the review_candidates dict it builds
ReviewCandidates(r, dbg) ==
    [f \in {g \in ReviewFields :
               /\ Get(dbg.confidence_per_field, g, 0) < ReviewThreshold
               /\ g \in DOMAIN dbg.candidates} |->
        [current_value |-> r[f],
         confidence |-> Get(dbg.confidence_per_field, f, 0),
         options |-> dbg.candidates[f]]]

\* RequiresReview without the amount_validation check
RequiresReviewNoValidation(r, dbg) ==
    \/ r.confidence < ReviewThreshold
    \/ Get(dbg.confidence_per_field, "vendor", 0) < ReviewThreshold
    \/ Get(dbg.confidence_per_field, "amount", 0) < ReviewThreshold
    \/ r.vendor = None
    \/ r.amount = None

\* _requires_review
RequiresReview(r, dbg) ==
    IF r.confidence < ReviewThreshold THEN TRUE
    ELSE IF \/ Get(dbg.confidence_per_field, "vendor", 0) < ReviewThreshold
            \/ Get(dbg.confidence_per_field, "amount", 0) < ReviewThreshold
         THEN TRUE
    ELSE IF r.vendor = None \/ r.amount = None THEN TRUE
    ELSE IF dbg.amount_validation # None
            /\ ~ dbg.amount_validation[1].is_consistent
         THEN TRUE
    ELSE FALSE

(***************************************************************************)
(* What the extract_* methods can leave behind, per field: the value and   *)
(* the score recorded for it in confidence_per_field (None: no entry).     *)
(* Amounts and taxes are positive: extract_amount skips amount <= 0 and    *)
(* extract_tax returns None for a sum of 0.                                *)
(***************************************************************************)
MaxWarnings == 2

VendorInputs == {<<None, None>>, <<None, Some(100)>>, <<Some("Uber"), Some(69)>>,
                 <<Some("Uber"), Some(70)>>, <<Some("Uber"), Some(100)>>}

AmountInputs == {<<None, None>>, <<None, Some(93)>>, <<Some(150), Some(69)>>,
                 <<Some(150), Some(93)>>, <<Some(6000), Some(69)>>,
                 <<Some(6000), Some(93)>>, <<Some(6000), Some(100)>>}

CurrencyInputs == {<<None, None>>, <<Some("CAD"), Some(60)>>}

DateInputs == {<<None, None>>, <<Some("2024-01-15"), None>>,
               <<Some("2024-01-15"), Some(100)>>}

\* extract_tax records 0.9 whenever it returns a tax
TaxInputs == {<<None, None>>, <<Some(10), Some(90)>>, <<Some(500), Some(90)>>}

\* the number after the first 'Subtotal' label of the text, in cents
SubtotalInputs == {None, Some(0), Some(137), Some(138), Some(5439), Some(5440),
                   Some(5500)}

\* the number after the first 'before tax' label of the text, in cents
BeforeTaxInputs == {None, Some(5500)}

CurrencyWarning == "No strong currency evidence found"

InconsistencyWarning == "Amount inconsistency"

\* confidence_per_field built from the per-field inputs
RecordedScores(in) ==
    [f \in {g \in Fields : in[g][2] # None} |-> in[f][2][1]]

InitTail ==
    /\ InitParser
    /\ stage = "extracted"
    /\ \E v \in VendorInputs, a \in AmountInputs, c \in CurrencyInputs,
          d \in DateInputs, t \in TaxInputs, n \in 0..MaxWarnings,
          sub \in SubtotalInputs, bt \in BeforeTaxInputs :
          LET in == [vendor |-> v, amount |-> a, currency |-> c,
                     date |-> d, tax |-> t]
          IN  /\ doc = [subtotal |-> sub, before_tax |-> bt]
              /\ result = [vendor |-> v[1], amount |-> a[1],
                           currency |-> c[1], date |-> d[1], tax |-> t[1],
                           confidence |-> 0, needs_review |-> None]
              /\ debug = [confidence_per_field |-> RecordedScores(in),
                          warnings |-> [i \in 1..n |-> CurrencyWarning],
                          amount_validation |-> None,
                          review_candidates |-> << >>,
                          candidates |-> << >>]
    /\ selected = None

\* a validation step that replaces an inconsistent total by subtotal + tax
\* (the code records the inconsistency and leaves the total alone)
ParseValidateCorrecting ==
    /\ stage = "extracted"
    /\ LET v == AmountValidation(result.amount, result.tax, doc)
       IN  /\ debug' = [debug EXCEPT
                           !.amount_validation = v,
                           !.warnings = IF v # None /\ ~ v[1].is_consistent
                                        THEN Append(@, InconsistencyWarning)
                                        ELSE @]
           /\ result' = IF v # None /\ ~ v[1].is_consistent
                        THEN [result EXCEPT !.amount = Some(v[1].calculated_total)]
                        ELSE result
    /\ stage' = "validated"
    /\ UNCHANGED <<doc, selected>>
    /\ UNCHANGED parserVars

\* parse(): self._validate_amount_consistency(amount, tax, text, debug)
ParseValidate ==
    /\ stage = "extracted"
    /\ LET v == AmountValidation(result.amount, result.tax, doc)
       IN  debug' = [debug EXCEPT
                        !.amount_validation = v,
                        !.warnings = IF v # None /\ ~ v[1].is_consistent
                                     THEN Append(@, InconsistencyWarning)
                                     ELSE @]
    /\ stage' = "validated"
    /\ UNCHANGED <<doc, result, selected>>
    /\ UNCHANGED parserVars

\* parse(): result['confidence'] = self._calculate_confidence(result)
ParseConfidence ==
    /\ stage = "validated"
    /\ \E c \in CalculateConfidence(result, debug) :
          result' = [result EXCEPT !.confidence = c]
    /\ stage' = "scored"
    /\ UNCHANGED <<doc, debug, selected>>
    /\ UNCHANGED parserVars

\* parse(): self._capture_review_candidates(text, context, result, debug)
ParseCapture ==
    /\ stage = "scored"
    /\ debug' = [debug EXCEPT !.review_candidates = ReviewCandidates(result, debug)]
    /\ stage' = "captured"
    /\ UNCHANGED <<doc, result, selected>>
    /\ UNCHANGED parserVars

\* parse(): result['needs_review'] = self._requires_review(result, debug)
ParseReview ==
    /\ stage = "captured"
    /\ result' = [result EXCEPT !.needs_review = Some(RequiresReview(result, debug))]
    /\ stage' = "returned"
    /\ UNCHANGED <<doc, debug, selected>>
    /\ UNCHANGED parserVars

NextTail ==
    \/ ParseValidate
    \/ ParseConfidence
    \/ ParseCapture
    \/ ParseReview

SpecTail == InitTail /\ [][NextTail]_vars

(***************************************************************************)
(* Scoring and selection (scoring.py).  A score is a whole number of       *)
(* millionths; 1.0 / (1.0 + log10(priority)) is rounded to the millionth.  *)
(***************************************************************************)
\* the acceptance floor 0.3 of select_best_candidate and select_best_amount
SelectThreshold == 300000

\* top_n of the select_top_* calls of the extract_* methods
TopN == 3

\* 1.0 / (1.0 + math.log10(priority))
PriorityBase(priority) ==
    CASE priority = 1 -> 1000000
      [] priority = 2 -> 768622
      [] priority = 3 -> 676992
      [] priority = 4 -> 624196
      [] priority = 100 -> 333333

\* a score left as it is
NoClamp(score) == score

\* max(0.0, min(1.0, base_score))
Clamp(score) == Max(0, Min(1000000, score))

\* round(score, 2), in hundredths
RoundScore(score) == (score + 5000) \div 10000

\* score_amount_candidate (its text argument is not read)
ScoreAmountCandidate(c) ==
    LET base == PriorityBase(c.priority)
        strong == IF c.has_strong_prefix THEN 300000 ELSE 0
        proximity == IF c.proximity_to_keywords < 100
                     THEN 2000 * (100 - c.proximity_to_keywords)
                     ELSE 0
        subtotal == IF c.in_subtotal_context THEN 400000 ELSE 0
        blacklist == IF c.in_blacklist_context THEN 500000 ELSE 0
    IN  Clamp(base + strong + proximity - subtotal - blacklist)

\* score_vendor_candidate; looks_like_person is
\* _looks_like_person_name(candidate.value)
ScoreVendorCandidate(c) ==
    LET base == IF c.from_email_header THEN 900000
                ELSE IF c.from_subject THEN 700000
                ELSE IF c.pattern_name = "payable_to" THEN 850000
                ELSE IF c.pattern_name = "business_keyword" THEN 750000
                ELSE IF c.pattern_name = "company_suffix" THEN 700000
                ELSE 500000
        suffix == IF c.has_company_suffix /\ c.pattern_name # "company_suffix"
                  THEN 100000 ELSE 0
        title == IF c.is_title_case THEN 100000 ELSE 0
        line == IF c.line_position = 0 THEN 250000
                ELSE IF c.line_position = 1 THEN 150000
                ELSE IF c.line_position = 2 THEN 100000
                ELSE IF c.line_position > 2
                     THEN 0 - Min(400000, (c.line_position - 2) * 20000)
                ELSE 0
        words == IF c.word_count > 5 THEN 100000 ELSE 0
        person == IF /\ (c.from_email_header \/ c.pattern_name = "context_sender_name")
                     /\ c.looks_like_person
                  THEN 600000 ELSE 0
    IN  Clamp(base + suffix + title + line - words - person)

\* a scorer passed as score_func, as a function on the candidates of a list
ScoreFunctionAmount(candidates) ==
    [c \in {candidates[i] : i \in DOMAIN candidates} |-> ScoreAmountCandidate(c)]

ScoreFunctionVendor(candidates) ==
    [c \in {candidates[i] : i \in DOMAIN candidates} |-> ScoreVendorCandidate(c)]

\* scored = [(candidate, score_func(candidate)) for candidate in candidates]
Scored(candidates, score_func) ==
    [i \in 1..Len(candidates) |->
        [candidate |-> candidates[i], score |-> score_func[candidates[i]]]]

\* a list left as it is
KeepOrder(scored) == scored

\* scored.sort(key=lambda x: x[1], reverse=True): by score, highest first;
\* the sort is stable, so equal scores keep their order in the list
SortDescending(scored) ==
    LET n == Len(scored)
        rank(i) == 1 + Cardinality({j \in 1..n :
                           \/ scored[j].score > scored[i].score
                           \/ (scored[j].score = scored[i].score /\ j < i)})
    IN  [k \in 1..n |-> scored[CHOOSE i \in 1..n : rank(i) = k]]

\* select_top_candidates
SelectTopCandidates(candidates, score_func, top_n) ==
    IF candidates = << >> THEN << >>
    ELSE LET scored == SortDescending(Scored(candidates, score_func))
         IN  SubSeq(scored, 1, Min(top_n, Len(scored)))

\* select_best_candidate
SelectBestCandidate(candidates, score_func) ==
    IF candidates = << >> THEN None
    ELSE LET best == SortDescending(Scored(candidates, score_func))[1]
         IN  IF best.score < SelectThreshold THEN None
             ELSE Some(best.candidate)

\* select_best_amount (its own copy of the routine)
SelectBestAmount(candidates) ==
    IF candidates = << >> THEN None
    ELSE LET best == SortDescending(Scored(candidates, ScoreFunctionAmount(candidates)))[1]
         IN  IF best.score < SelectThreshold THEN None
             ELSE Some(best.candidate)

\* select_best_vendor
SelectBestVendor(candidates) ==
    SelectBestCandidate(candidates, ScoreFunctionVendor(candidates))

\* every amount candidate, best first
SelectAllAmounts(candidates, top_n) ==
    SelectTopCandidates(candidates, ScoreFunctionAmount(candidates), Len(candidates))

\* select_top_amounts
SelectTopAmounts(candidates, top_n) ==
    SelectTopCandidates(candidates, ScoreFunctionAmount(candidates), top_n)

\* select_top_vendors
SelectTopVendors(candidates, top_n) ==
    SelectTopCandidates(candidates, ScoreFunctionVendor(candidates), top_n)

\* the scorer of a field
FieldScore(f, c) ==
    IF f = "amount" THEN ScoreAmountCandidate(c) ELSE ScoreVendorCandidate(c)

\* the 'value'/'score'/'pattern' entries the extract_* methods record for
\* the top candidates
RecordedOptions(top) ==
    [i \in 1..Len(top) |->
        [value |-> top[i].candidate.value,
         score |-> RoundScore(top[i].score),
         pattern |-> top[i].candidate.pattern_name]]

(***************************************************************************)
(* SpecSelect: the selector applied to a candidate list, the block of      *)
(* extract_amount / extract_vendor that records the selection, and         *)
(* _capture_review_candidates.  The candidates are samples of what         *)
(* create_amount_candidate and create_vendor_candidate build.              *)
(***************************************************************************)
MaxCands == 4

\* patterns whose name does not imply a strong prefix
AmountPatternSamples ==
    {[name |-> "order_summary_pipe", priority |-> 1],
     [name |-> "currency_symbol", priority |-> 4]}

\* in_subtotal_context is only set without a strong prefix
AmountCandidates ==
    {[value |-> 6000, pattern_name |-> p.name, priority |-> p.priority,
      has_strong_prefix |-> fl[1], in_subtotal_context |-> fl[2],
      in_blacklist_context |-> fl[3], proximity_to_keywords |-> 999] :
        p \in AmountPatternSamples,
        fl \in {<<TRUE, FALSE, FALSE>>, <<FALSE, FALSE, FALSE>>,
                <<FALSE, TRUE, FALSE>>, <<FALSE, FALSE, TRUE>>}}

VendorCandidates ==
    {[value |-> IF person THEN "Jorden Shaw" ELSE "Apple Store",
      pattern_name |-> IF header THEN "from_header_in_text" ELSE "early_line",
      from_email_header |-> header, from_subject |-> FALSE,
      has_company_suffix |-> FALSE, is_title_case |-> TRUE,
      line_position |-> line, word_count |-> 2,
      looks_like_person |-> person] :
        header \in BOOLEAN, person \in BOOLEAN, line \in {0, 30}}

CandidateSamples(f) ==
    IF f = "amount" THEN AmountCandidates ELSE VendorCandidates

ListsOf(S) == UNION {[1..n -> S] : n \in 0..MaxCands}

EmptyResult ==
    [vendor |-> None, amount |-> None, currency |-> None, date |-> None,
     tax |-> None, confidence |-> 0, needs_review |-> None]

EmptyDebug ==
    [confidence_per_field |-> << >>, warnings |-> << >>,
     amount_validation |-> None, review_candidates |-> << >>,
     candidates |-> << >>]

InitSelect ==
    /\ InitParser
    /\ stage = "candidates"
    /\ \E f \in {"amount", "vendor"} :
          \E cs \in ListsOf(CandidateSamples(f)) :
              doc = [field |-> f, candidates |-> cs]
    /\ result = EmptyResult
    /\ debug = EmptyDebug
    /\ selected = None

\* select_best_amount(candidates, text) / select_best_vendor(candidates)
ExtractSelect ==
    /\ stage = "candidates"
    /\ selected' = IF doc.field = "amount"
                   THEN SelectBestAmount(doc.candidates)
                   ELSE SelectBestVendor(doc.candidates)
    /\ stage' = "selected"
    /\ UNCHANGED <<doc, result, debug>>
    /\ UNCHANGED parserVars

\* the `if result:` block of extract_amount / extract_vendor, with the score
\* of the selected candidate: confidence_per_field and <field>_candidates
\* are recorded and the value is returned; nothing is recorded without a
\* selection
ExtractRecord ==
    /\ stage = "selected"
    /\ IF selected = None
       THEN UNCHANGED <<result, debug>>
       ELSE LET f == doc.field
                best == selected[1]
                top_3 == IF f = "amount"
                         THEN SelectTopAmounts(doc.candidates, TopN)
                         ELSE SelectTopVendors(doc.candidates, TopN)
            IN  /\ result' = [result EXCEPT ![f] = Some(best.value)]
                /\ debug' = [debug EXCEPT
                       !.confidence_per_field =
                           Put(@, f, RoundScore(FieldScore(f, best))),
                       !.candidates = Put(@, f, RecordedOptions(top_3))]
    /\ stage' = "scored"
    /\ UNCHANGED <<doc, selected>>
    /\ UNCHANGED parserVars

NextSelect ==
    \/ ExtractSelect
    \/ ExtractRecord
    \/ ParseCapture

SpecSelect == InitSelect /\ [][NextSelect]_vars

(***************************************************************************)
(* SpecCurrency: extract_currency called on its own.  A text is the        *)
(* evidence the six strategies look for; codes are sampled by CAD and USD. *)
(***************************************************************************)
CurrencyCodes == {"CAD", "USD"}

CurrencyTexts ==
    {t \in [dollar : BOOLEAN,                \* '$' in text
            near_amount : {None} \cup {Some(c) : c \in CurrencyCodes},
                                             \* code within 200 chars of the amount match
            near_keyword : {None} \cup {Some(c) : c \in CurrencyCodes},
                                             \* code within 100 chars after a keyword
            keyword : {"TOTAL", "PAID"},     \* that keyword
            canadian : BOOLEAN,              \* CANADA / GST / PST / HST or a province code
            c_dollar : BOOLEAN,              \* 'C$' or 'C $' in text
            euro : BOOLEAN,                  \* the euro sign in text
            user_currency : {None, Some("USD")}] :  \* context.user_currency
        /\ t.c_dollar => t.dollar
        /\ t.near_keyword = None => t.keyword = "TOTAL"}

\* create_currency_candidate; context_count is the number of times
\* raw_text occurs in the text
CurrencyCandidate(value, pattern_name, priority, is_explicit, context_count) ==
    [value |-> value, pattern_name |-> pattern_name, priority |-> priority,
     is_explicit |-> is_explicit, context_count |-> context_count,
     symbol_proximity |-> 999]

\* score_currency_candidate
ScoreCurrencyCandidate(c) ==
    LET base == IF c.is_explicit THEN 900000 ELSE 600000
        context_bonus == Min(300000, (c.context_count - 1) * 50000)
        proximity_bonus == IF c.symbol_proximity < 10
                           THEN 10000 * (10 - c.symbol_proximity)
                           ELSE 0
    IN  Clamp(base + context_bonus + proximity_bonus)

\* the candidates list extract_currency builds, strategy by strategy; the
\* raw_text of the CAD heuristic ('GST/PST/CANADA', 'province_code') does
\* not occur in the text, so its context_count is 0
CurrencyStrategy1(t) ==
    IF t.near_amount # None
    THEN <<CurrencyCandidate(t.near_amount[1], "explicit_near_amount", 1, TRUE, 1)>>
    ELSE << >>

CurrencyStrategy2(t) ==
    IF t.near_keyword # None
    THEN <<CurrencyCandidate(t.near_keyword[1], "explicit_near_keyword", 2, TRUE, 1)>>
    ELSE << >>

CurrencyStrategy3(t) ==
    LET has_usd_override == t.near_keyword = Some("USD") /\ t.keyword = "TOTAL"
    IN  IF t.canadian /\ ~ has_usd_override
        THEN <<CurrencyCandidate("CAD", "cad_heuristic", 3, FALSE, 0)>>
        ELSE << >>

CurrencyStrategy4(t) ==
    IF t.c_dollar
    THEN <<CurrencyCandidate("CAD", "c_dollar_symbol", 2, FALSE, 1)>>
    ELSE << >>

CurrencyStrategy5(t) ==
    IF t.euro
    THEN <<CurrencyCandidate("EUR", "currency_symbol", 4, FALSE, 1)>>
    ELSE << >>

\* Strategy 6 (a '$' and no CAD or USD candidate) reads context.user_currency
\* into a local variable and adds no candidate
CurrencyStrategy6(t, candidates) == << >>

CurrencyCandidatesOf(t) ==
    LET upTo5 == CurrencyStrategy1(t) \o CurrencyStrategy2(t) \o CurrencyStrategy3(t)
                 \o CurrencyStrategy4(t) \o CurrencyStrategy5(t)
    IN  upTo5 \o CurrencyStrategy6(t, upTo5)

ScoreFunctionCurrency(candidates) ==
    [c \in {candidates[i] : i \in DOMAIN candidates} |-> ScoreCurrencyCandidate(c)]

\* select_best_currency
SelectBestCurrency(candidates) ==
    SelectBestCandidate(candidates, ScoreFunctionCurrency(candidates))

\* select_top_currencies
SelectTopCurrencies(candidates, top_n) ==
    SelectTopCandidates(candidates, ScoreFunctionCurrency(candidates), top_n)

\* the selector call of extract_currency:
\* select_best_currency(candidates, return_score=True)
SelectBestCurrencyParams == {"candidates"}

ExtractCurrencySelectArgs == {"candidates", "return_score"}

ExtractCurrencyCaught == {"re.error", "AttributeError"}

\* the exception that leaves extract_currency ("none": it returns)
ExtractCurrencyEscapes ==
    LET e == CallRaises(SelectBestCurrencyParams, ExtractCurrencySelectArgs)
    IN  IF e \in ExtractCurrencyCaught THEN "none" ELSE e

InitCurrency ==
    /\ InitParser
    /\ stage = "currency_text"
    /\ \E t \in CurrencyTexts : doc = [text |-> t, candidates |-> << >>]
    /\ result = EmptyResult
    /\ debug = EmptyDebug
    /\ selected = None

\* extract_currency, strategies 1 to 6
ExtractCurrencyCandidates ==
    /\ stage = "currency_text"
    /\ doc' = [doc EXCEPT !.candidates = CurrencyCandidatesOf(doc.text)]
    /\ stage' = "currency_candidates"
    /\ UNCHANGED <<result, debug, selected>>
    /\ UNCHANGED parserVars

\* extract_currency from its selector call on: the call raises, or the
\* selection is recorded and returned, or the warning is recorded and None
\* is returned
ExtractCurrencySelect ==
    /\ stage = "currency_candidates"
    /\ IF ExtractCurrencyEscapes # "none"
       THEN /\ stage' = "raised"
            /\ UNCHANGED <<result, debug, selected>>
       ELSE LET best == SelectBestCurrency(doc.candidates)
            IN  /\ stage' = "returned"
                /\ selected' = best
                /\ result' = [result EXCEPT !.currency =
                                 IF best = None THEN None ELSE Some(best[1].value)]
                /\ debug' = IF best = None
                            THEN [debug EXCEPT !.warnings = Append(@, CurrencyWarning)]
                            ELSE [debug EXCEPT
                                     !.confidence_per_field =
                                         Put(@, "currency",
                                             RoundScore(ScoreCurrencyCandidate(best[1]))),
                                     !.candidates =
                                         Put(@, "currency",
                                             RecordedOptions(
                                                 SelectTopCurrencies(doc.candidates, TopN)))]
    /\ UNCHANGED doc
    /\ UNCHANGED parserVars

NextCurrency ==
    \/ ExtractCurrencyCandidates
    \/ ExtractCurrencySelect

SpecCurrency == InitCurrency /\ [][NextCurrency]_vars

(***************************************************************************)
(* Claims about parse() as a whole.                                        *)
(***************************************************************************)

\* C1: every parse() call that has ended returned a result record; no
\* exception escaped it.
C1_ParseAlwaysReturns ==
    \A c \in Callers : pc[c] = "done" => outcome[c] = "returned"

\* C3: in a sequence of calls on one instance, the forwarding verdict a call
\* works with (reported as debug.vendor_is_forwarded and used to pick the
\* vendor) is the one a fresh instance computes from this call's text and
\* context alone.
C3_ResultIgnoresEarlierCalls ==
    pc["t1"] \in {"select", "done"} =>
        isfwd["t1"] = ComputeForwarded(text["t1"], ctx["t1"])

\* C4: when two callers each make their first call on a new instance and
\* the calls overlap, each call works with the forwarding verdict it would
\* compute when run alone.
C4_ConcurrentCallsIndependent ==
    \A c, d \in Callers :
        (/\ c # d
         /\ calls[c] = 1 /\ calls[d] = 1
         /\ pc[c] \in {"select", "done"}
         /\ pc[d] \in {"store", "select"})
        => isfwd[c] = ComputeForwarded(text[c], ctx[c])

(***************************************************************************)
(* Claims about the end of parse(), under SpecTail.                        *)
(***************************************************************************)
HasInconsistencyWarning ==
    \E i \in DOMAIN debug.warnings : debug.warnings[i] = InconsistencyWarning

\* |subtotal + tax - total| > max(1% of total, 0.02), in units of 1/100 cent
ExceedsTolerance(subtotal, tax, total) ==
    Abs(subtotal + tax - total) * 100 > Max(total, 200)

C6_WarningExactlyBeyondTolerance ==
    (/\ stage = "returned"
     /\ doc.subtotal # None /\ result.tax # None /\ result.amount # None)
    => IF ExceedsTolerance(doc.subtotal[1], result.tax[1], result.amount[1])
       THEN HasInconsistencyWarning /\ result.needs_review = Some(TRUE)
       ELSE /\ ~ HasInconsistencyWarning
            /\ debug.amount_validation # None
            /\ debug.amount_validation[1].is_consistent

\* the weighted sum of the recorded scores of the extracted fields, 1/10000
ClaimedWeightedSum ==
    LET part(f, w) == IF result[f] = None THEN 0
                      ELSE w * Get(debug.confidence_per_field, f, 50)
    IN  part("amount", 35) + part("vendor", 25) + part("date", 25)
        + part("currency", 5) + part("tax", 10)

\* C10, as stated: the confidence equals the weighted sum of the per-field
\* scores minus 0.05 for each warning, clamped to [0,1].
C10_ConfidenceIsClampedSum ==
    stage \in {"scored", "captured", "returned"} =>
        result.confidence * 100 =
            Max(0, Min(10000, ClaimedWeightedSum - 500 * Len(debug.warnings)))

\* C10, amended: the confidence is the weighted sum of the per-field scores
\* (an extracted field with no recorded score counts 0.5, a field not
\* extracted 0) minus 0.05 per warning but at most 0.10, clamped to [0,1]
\* and then rounded to two decimals.
C10_ConfidenceIsRoundedClampedSum ==
    stage \in {"scored", "captured", "returned"} =>
        LET n == Len(debug.warnings)
            penalty == IF n >= 2 THEN 1000 ELSE 500 * n
            exact == Max(0, Min(10000, ClaimedWeightedSum - penalty))
        IN  /\ result.confidence \in 0..100
            /\ Abs(result.confidence * 100 - exact) <= 50

\* C10 witness: a confidence computed from three warnings (the capped
\* penalty) that differs from the unrounded sum.
C10_Witness ==
    /\ stage = "scored"
    /\ Len(debug.warnings) = 3
    /\ result.confidence > 0
    /\ result.confidence * 100 # ClaimedWeightedSum - 1000

OptionsRanked(options) ==
    /\ Len(options) <= 3
    /\ \A i, j \in DOMAIN options : i < j => options[i].score >= options[j].score

BareDollar(t) ==
    /\ t.dollar
    /\ t.near_amount = None /\ t.near_keyword = None
    /\ ~ t.canadian /\ ~ t.c_dollar /\ ~ t.euro

\* C7: for a text with a bare `$` and no currency code or other currency
\* evidence, the extraction ends by returning currency = null.
C7_BareDollarYieldsNull ==
    (stage \in {"returned", "raised"} /\ BareDollar(doc.text))
        => (stage = "returned" /\ result.currency = None)

(***************************************************************************)
(* extract_tax (SpecTax).  A text is a sequence of lines; a line is a      *)
(* label, what stands between the label and the number, and a number       *)
(* written with two decimals.  A captured span is the line of the number   *)
(* and the count of its leading integer digits left outside the capture    *)
(* (every capture of the tax patterns ends where the number ends).         *)
(* Amounts are in cents.                                                   *)
(***************************************************************************)
MaxTaxLines == 2

TaxNumbers == {[int |-> <<2>>, cents |-> 62], [int |-> <<1, 2>>, cents |-> 65]}

TaxLine(label, pct, sep, num) ==
    [label |-> label, pct |-> pct, sep |-> sep, num |-> num]

\* the characters between a label and its number: ": $", " ", "| $", " $"
TaxSeparators == {"colon_dollar", "space", "pipe_dollar", "space_dollar"}

\* "GST: $2.62", "Sales Tax 12.65", "VAT| $2.62", "Total $12.65", ...;
\* "5% GST 12.65"; "GST: $0.00"; a label alone, "Sales Tax", with the number
\* "$2.62" on the next line; "Harmonized Sales Tax - Canada" with the
\* registration line "RT00012.65" below it.
TaxLines ==
    {TaxLine(l, FALSE, s, Some(n)) :
        l \in {"gst", "tax", "sales tax", "vat", "total"},
        s \in TaxSeparators, n \in TaxNumbers}
    \cup {TaxLine("gst", TRUE, s, Some(n)) :
            s \in {"colon_dollar", "space"}, n \in TaxNumbers}
    \cup {TaxLine("gst", FALSE, "colon_dollar", Some([int |-> <<0>>, cents |-> 0])),
          TaxLine("sales tax", FALSE, "none", None),
          TaxLine("none", FALSE, "dollar", Some([int |-> <<2>>, cents |-> 62])),
          TaxLine("harmonized", FALSE, "none", None),
          TaxLine("ref", FALSE, "none", Some([int |-> <<0, 0, 0, 1, 2>>, cents |-> 65]))}

TaxTexts == UNION {[1..n -> TaxLines] : n \in 0..MaxTaxLines}

TaxPatterns ==
    <<"vat_with_percent", "tax_generic", "sales_tax_hst_gst", "percent_gst_hst",
      "harmonized_sales_tax", "tax_pipe_separator", "hst_gst_no_colon",
      "country_prefix_tax", "tax_pipe_urban", "sales_tax_multiline",
      "linkedin_gst">>

IntDigits(l) == Len(l.num[1].int)

\* [\s:()%\d\|]*[$...]?\s*(NUM): the class takes digits too, so with no
\* currency symbol in between it leaves the number only its last integer digit
AfterPercentClass(l) ==
    IF l.sep \in TaxSeparators
    THEN Some(IF l.sep = "space" THEN IntDigits(l) - 1 ELSE 0)
    ELSE None

\* the capture of a match of pattern p that lies within line l
CaptureInLine(p, l) ==
    IF l.num = None THEN None
    ELSE CASE p = "vat_with_percent" ->
                IF l.label = "vat" THEN AfterPercentClass(l) ELSE None
           [] p = "tax_generic" ->
                IF l.label \in {"tax", "sales tax"} /\ l.sep \in TaxSeparators
                THEN Some(0) ELSE None
           [] p = "sales_tax_hst_gst" ->
                IF l.label \in {"sales tax", "gst"} THEN AfterPercentClass(l) ELSE None
           [] p = "percent_gst_hst" ->
                IF /\ l.pct /\ l.label = "gst"
                   /\ l.sep \in {"colon_dollar", "space", "space_dollar"}
                THEN Some(0) ELSE None
           [] p = "tax_pipe_separator" ->
                IF /\ l.label \in {"gst", "tax", "sales tax", "vat"}
                   /\ l.sep = "pipe_dollar"
                THEN Some(0) ELSE None
           [] p = "hst_gst_no_colon" ->
                IF l.label = "gst" /\ l.sep = "space_dollar" THEN Some(0) ELSE None
           [] OTHER -> None

\* the capture in line l of a match of pattern p that begins in the line
\* before it
CaptureAcross(p, prev, l) ==
    IF l.num = None THEN None
    ELSE CASE p \in {"tax_generic", "sales_tax_hst_gst"} ->
                IF /\ prev.label = "sales tax" /\ prev.sep = "none"
                   /\ l.label = "none"
                THEN Some(0) ELSE None
           [] p = "sales_tax_multiline" ->
                IF /\ prev.label = "sales tax" /\ prev.sep = "none"
                   /\ \/ l.label = "none"
                      \/ /\ l.label \in {"gst", "tax", "vat"}
                         /\ ~ l.pct /\ l.sep = "space"
                THEN Some(0) ELSE None
           [] p = "harmonized_sales_tax" ->
                IF prev.label = "harmonized"
                THEN Some(Max(0, IntDigits(l) - 2)) ELSE None
           [] OTHER -> None

Capture(p, lines, i) ==
    IF i > 1 /\ CaptureAcross(p, lines[i - 1], lines[i]) # None
    THEN CaptureAcross(p, lines[i - 1], lines[i])
    ELSE CaptureInLine(p, lines[i])

\* match.span(match.lastindex or 1)
AmountSpan(i, capture) == [line |-> i, start |-> capture[1]]

RECURSIVE DigitsValue(_)
DigitsValue(ds) ==
    IF ds = << >> THEN 0
    ELSE 10 * DigitsValue(SubSeq(ds, 1, Len(ds) - 1)) + ds[Len(ds)]

\* Decimal(match.group(match.lastindex or 1)), in cents
AmountGroup(lines, span) ==
    LET n == lines[span.line].num[1]
    IN  100 * DigitsValue(SubSeq(n.int, span.start + 1, Len(n.int))) + n.cents

\* spec.compiled.finditer(text), from line i on
RECURSIVE FindIter(_, _, _)
FindIter(p, lines, i) ==
    IF i > Len(lines) THEN << >>
    ELSE (IF Capture(p, lines, i) = None THEN << >>
          ELSE <<AmountSpan(i, Capture(p, lines, i))>>)
         \o FindIter(p, lines, i + 1)

\* the matches in the order the two loops of extract_tax visit them
RECURSIVE AllMatches(_, _)
AllMatches(lines, k) ==
    IF k > Len(TaxPatterns) THEN << >>
    ELSE FindIter(TaxPatterns[k], lines, 1) \o AllMatches(lines, k + 1)

CountEverySpan(amount_span, seen_spans) == FALSE

SeenSpan(amount_span, seen_spans) == amount_span \in seen_spans

RECURSIVE TaxLoop(_, _, _, _)
TaxLoop(lines, matches, seen_spans, taxes) ==
    IF matches = << >> THEN taxes
    ELSE LET amount_span == Head(matches)
             tax == AmountGroup(lines, amount_span)
         IN  IF SeenSpan(amount_span, seen_spans)
             THEN TaxLoop(lines, Tail(matches), seen_spans, taxes)
             ELSE TaxLoop(lines, Tail(matches), seen_spans \cup {amount_span},
                          IF tax > 0 THEN Append(taxes, tax) ELSE taxes)

RECURSIVE Sum(_)
Sum(s) == IF s = << >> THEN 0 ELSE Head(s) + Sum(Tail(s))

InitTax ==
    /\ InitParser
    /\ stage = "tax_text"
    /\ \E t \in TaxTexts : doc = [lines |-> t]
    /\ result = EmptyResult
    /\ debug = Put(EmptyDebug, "patterns_matched", << >>)
    /\ selected = None

\* extract_tax
ExtractTax ==
    /\ stage = "tax_text"
    /\ LET taxes == TaxLoop(doc.lines, AllMatches(doc.lines, 1), {}, << >>)
       IN  IF taxes # << >>
           THEN /\ result' = [result EXCEPT !.tax = Some(Sum(taxes))]
                /\ debug' = [debug EXCEPT
                                !.patterns_matched = Put(@, "tax", Len(taxes)),
                                !.confidence_per_field = Put(@, "tax", 90)]
           ELSE /\ result' = [result EXCEPT !.tax = None]
                /\ debug' = debug
    /\ stage' = "returned"
    /\ UNCHANGED <<doc, selected>>
    /\ UNCHANGED parserVars

NextTax == ExtractTax

SpecTax == InitTax /\ [][NextTax]_vars

(***************************************************************************)
(* Claims about extract_tax, under SpecTax.                                *)
(***************************************************************************)
\* the distinct character spans some tax pattern captures in the text
CapturedSpans(lines) ==
    {AmountSpan(i, Capture(TaxPatterns[k], lines, i)) :
        <<k, i>> \in {ki \in (1..Len(TaxPatterns)) \X (1..Len(lines)) :
                         Capture(TaxPatterns[ki[1]], lines, ki[2]) # None}}

RECURSIVE SumOverSpans(_, _)
SumOverSpans(lines, spans) ==
    IF spans = {} THEN 0
    ELSE LET s == CHOOSE x \in spans : TRUE
         IN  AmountGroup(lines, s) + SumOverSpans(lines, spans \ {s})

\* C5: the tax extract_tax returns is the sum, over the distinct spans of
\* captured numbers, of the value at that span: a span captured by several
\* patterns counts once, equal values at different spans all count.  With
\* no positive tax value the tax is None.
C5_TaxIsSumOverDistinctSpans ==
    stage = "returned" =>
        LET total == SumOverSpans(doc.lines, CapturedSpans(doc.lines))
        IN  result.tax = IF total > 0 THEN Some(total) ELSE None

\* C5 witness: two lines carry the same value 2.62 at different spans, the
\* first span is captured by two patterns, and the tax is 5.24.
C5_Witness ==
    /\ stage = "returned"
    /\ Len(doc.lines) = 2
    /\ Capture("sales_tax_hst_gst", doc.lines, 1) = Some(0)
    /\ Capture("tax_pipe_separator", doc.lines, 1) = Some(0)
    /\ Capture("tax_generic", doc.lines, 2) = Some(0)
    /\ AmountGroup(doc.lines, AmountSpan(1, Some(0))) = 262
    /\ AmountGroup(doc.lines, AmountSpan(2, Some(0))) = 262
    /\ result.tax = Some(524)

(***************************************************************************)
(* The four scorers applied to one candidate (SpecScore).  The candidate   *)
(* is drawn from every combination of the attributes a scorer reads; the   *)
(* priorities are those of the patterns of parser.py (1 to 4, and 100 for  *)
(* a date pattern without priority).                                       *)
(***************************************************************************)
\* score_date_candidate
ScoreDateCandidate(c) ==
    LET base == PriorityBase(c.priority)
        strong == IF c.has_strong_prefix THEN 300000 ELSE 0
        line_bonus == IF c.line_position <= 20
                      THEN 10000 * (20 - c.line_position)
                      ELSE 0
        ambiguity == IF c.is_ambiguous /\ c.detected_locale = None
                     THEN 200000 ELSE 0
    IN  Clamp(base + strong + line_bonus - ambiguity)

AmountScoreInputs ==
    [kind : {"amount"}, priority : {1, 2, 3, 4}, has_strong_prefix : BOOLEAN,
     proximity_to_keywords : {0, 50, 99, 100, 999},
     in_subtotal_context : BOOLEAN, in_blacklist_context : BOOLEAN]

VendorScoreInputs ==
    [kind : {"vendor"}, from_email_header : BOOLEAN, from_subject : BOOLEAN,
     pattern_name : {"early_line", "payable_to", "business_keyword",
                     "company_suffix", "context_sender_name"},
     has_company_suffix : BOOLEAN, is_title_case : BOOLEAN,
     line_position : {0, 1, 2, 3, 30, 999}, word_count : {2, 6},
     looks_like_person : BOOLEAN]

DateScoreInputs ==
    [kind : {"date"}, priority : {1, 100}, has_strong_prefix : BOOLEAN,
     line_position : {0, 10, 20, 21, 999}, is_ambiguous : BOOLEAN,
     detected_locale : {None, Some("US"), Some("EU")}]

CurrencyScoreInputs ==
    [kind : {"currency"}, is_explicit : BOOLEAN,
     context_count : {0, 1, 3, 7, 10}, symbol_proximity : {0, 5, 10, 999}]

ScoreInputs ==
    AmountScoreInputs \cup VendorScoreInputs \cup DateScoreInputs
        \cup CurrencyScoreInputs

\* the scorer of a candidate's kind
ScoreOf(c) ==
    CASE c.kind = "amount" -> ScoreAmountCandidate(c)
      [] c.kind = "vendor" -> ScoreVendorCandidate(c)
      [] c.kind = "date" -> ScoreDateCandidate(c)
      [] c.kind = "currency" -> ScoreCurrencyCandidate(c)

InitScore ==
    /\ InitParser
    /\ stage = "candidate"
    /\ \E c \in ScoreInputs : doc = c
    /\ result = EmptyResult
    /\ debug = EmptyDebug
    /\ selected = None

\* score_amount_candidate, score_vendor_candidate, score_date_candidate,
\* score_currency_candidate
ScoreCandidate ==
    /\ stage = "candidate"
    /\ selected' = Some(ScoreOf(doc))
    /\ stage' = "scored"
    /\ UNCHANGED <<doc, result, debug>>
    /\ UNCHANGED parserVars

\* _debug['confidence_per_field'][field] = round(score, 2)
RecordScore ==
    /\ stage = "scored"
    /\ debug' = [debug EXCEPT !.confidence_per_field =
                                  Put(@, doc.kind, RoundScore(selected[1]))]
    /\ stage' = "recorded"
    /\ UNCHANGED <<doc, result, selected>>
    /\ UNCHANGED parserVars

NextScore == ScoreCandidate \/ RecordScore

SpecScore == InitScore /\ [][NextScore]_vars

GarbageHeads == {"empty", "symbols", "binary"}

\* C12: a parse() call on an empty string, a string of pure symbols or
\* binary garbage ends by returning a result (all fields null, confidence 0,
\* needs_review true and a debug record), never by raising.
C12_GarbageYieldsEmptyResult ==
    \A c \in Callers :
        (pc[c] = "done" /\ text[c].head \in GarbageHeads)
            => outcome[c] = "returned"

(***************************************************************************)
(* _normalize_ocr_spaces (SpecNormalize).  A text is a sequence of         *)
(* characters: a letter, a space or a line break; it is shorter than the   *)
(* 500 characters of the sample the space ratio is taken from.             *)
(***************************************************************************)
MaxTextLen == 9

Chars == {"a", " ", "\n"}

OcrTexts == UNION {[1..n -> Chars] : n \in 0..MaxTextLen}

\* [A-Za-z]
IsLetter(ch) == ch = "a"

\* \s
IsSpace(ch) == ch \in {" ", "\n"}

\* the text without the characters at the positions in removed
RECURSIVE Without(_, _, _)
Without(t, removed, i) ==
    IF i > Len(t) THEN << >>
    ELSE (IF i \in removed THEN << >> ELSE <<t[i]>>) \o Without(t, removed, i + 1)

\* the nearest position left (right) of k that holds no whitespace;
\* 0 (Len(t) + 1) when there is none
LeftOfRun(t, k) ==
    IF \E i \in 1..(k - 1) : ~ IsSpace(t[i])
    THEN CHOOSE i \in 1..(k - 1) :
             ~ IsSpace(t[i]) /\ \A j \in (i + 1)..(k - 1) : IsSpace(t[j])
    ELSE 0

RightOfRun(t, k) ==
    IF \E i \in (k + 1)..Len(t) : ~ IsSpace(t[i])
    THEN CHOOSE i \in (k + 1)..Len(t) :
             ~ IsSpace(t[i]) /\ \A j \in (k + 1)..(i - 1) : IsSpace(t[j])
    ELSE Len(t) + 1

\* \b before (after) the letter at position i
BoundaryBefore(t, i) == i = 1 \/ ~ IsLetter(t[i - 1])

BoundaryAfter(t, i) == i = Len(t) \/ ~ IsLetter(t[i + 1])

\* re.sub(r'\b([A-Za-z])\s+(?=[A-Za-z]\b)', r'\1', text): the whitespace
\* between two letters that stand alone is removed
JoinSingleLetters(t) ==
    Without(t, {k \in 1..Len(t) :
                   /\ IsSpace(t[k])
                   /\ LET l == LeftOfRun(t, k)
                          r == RightOfRun(t, k)
                      IN  /\ l >= 1 /\ r <= Len(t)
                          /\ IsLetter(t[l]) /\ BoundaryBefore(t, l)
                          /\ IsLetter(t[r]) /\ BoundaryAfter(t, r)}, 1)

\* re.sub(r'\s{2,}', ' ', text)
RECURSIVE CollapseSpaces(_, _)
CollapseSpaces(t, i) ==
    IF i > Len(t) THEN << >>
    ELSE IF ~ IsSpace(t[i]) THEN <<t[i]>> \o CollapseSpaces(t, i + 1)
    ELSE LET r == RightOfRun(t, i)
         IN  (IF r - i >= 2 THEN <<" ">> ELSE <<t[i]>>) \o CollapseSpaces(t, r)

\* re.search of n letters with whitespace between each two of them,
\* the first letter at position i
RECURSIVE SpacedLettersAt(_, _, _)
SpacedLettersAt(t, i, n) ==
    /\ i <= Len(t) /\ IsLetter(t[i])
    /\ \/ n = 1
       \/ /\ i < Len(t) /\ IsSpace(t[i + 1])
          /\ SpacedLettersAt(t, RightOfRun(t, i + 1), n - 1)

HasSpacedLetters(t, n) == \E i \in 1..Len(t) : SpacedLettersAt(t, i, n)

\* one re.sub(r'\b([A-Za-z])\s+(?=[A-Za-z](\s+|$))', r'\1', text)
JoinSpacedLetters(t) ==
    Without(t, {k \in 1..Len(t) :
                   /\ IsSpace(t[k])
                   /\ LET l == LeftOfRun(t, k)
                          r == RightOfRun(t, k)
                      IN  /\ l >= 1 /\ r <= Len(t)
                          /\ IsLetter(t[l]) /\ BoundaryBefore(t, l)
                          /\ IsLetter(t[r])
                          /\ (r = Len(t) \/ IsSpace(t[r + 1]))}, 1)

\* the while loop of the normal case
RECURSIVE JoinUntilFixed(_)
JoinUntilFixed(t) ==
    IF JoinSpacedLetters(t) = t THEN t ELSE JoinUntilFixed(JoinSpacedLetters(t))

\* sample.count(' ')
SpaceCount(t) == Cardinality({k \in 1..Len(t) : t[k] = " "})

\* _normalize_ocr_spaces
NormalizeOcrSpaces(t) ==
    IF Len(t) > 0 /\ 100 * SpaceCount(t) > 45 * Len(t)
    THEN CollapseSpaces(JoinSingleLetters(t), 1)
    ELSE IF Len(t) > 0 /\ 100 * SpaceCount(t) > 35 * Len(t)
    THEN LET collapsed == CollapseSpaces(t, 1)
         IN  IF HasSpacedLetters(collapsed, 3)
             THEN JoinSingleLetters(collapsed)
             ELSE collapsed
    ELSE IF HasSpacedLetters(t, 5) THEN JoinUntilFixed(t) ELSE t

InitNormalize ==
    /\ InitParser
    /\ stage = "text"
    /\ \E t \in OcrTexts : doc = [text |-> t, before |-> None]
    /\ result = None
    /\ debug = None
    /\ selected = None

\* text = self._normalize_ocr_spaces(text), applied to a text and then to
\* what it returned
Normalize ==
    /\ stage \in {"text", "normalized"}
    /\ doc' = [text |-> NormalizeOcrSpaces(doc.text), before |-> Some(doc.text)]
    /\ stage' = IF stage = "text" THEN "normalized" ELSE "renormalized"
    /\ UNCHANGED <<result, debug, selected>>
    /\ UNCHANGED parserVars

NextNormalize == Normalize

SpecNormalize == InitNormalize /\ [][NextNormalize]_vars

(***************************************************************************)
(* Claims about _normalize_ocr_spaces, under SpecNormalize.                *)
(***************************************************************************)
\* C13: normalization is idempotent: normalizing the output of a
\* normalization returns it unchanged.
C13_NormalizeIdempotent ==
    stage = "renormalized" => doc.text = doc.before[1]

(***************************************************************************)
(* extract_amount (SpecAmount).  The document is the list of matches the   *)
(* amount patterns find in it, in the order extract_amount visits them;    *)
(* a match is the pattern, the amount parse_money reads (in cents) and     *)
(* what create_amount_candidate finds around the match.                    *)
(***************************************************************************)
MaxAmountMatches == 2

\* amount_patterns: name and priority
AmountPatterns ==
    {[name |-> "explicit_payment", priority |-> 1],
     [name |-> "markdown_bold_total", priority |-> 1],
     [name |-> "order_summary_pipe", priority |-> 1],
     [name |-> "total_pipe_cad", priority |-> 1],
     [name |-> "total_cad_format", priority |-> 1],
     [name |-> "table_pipe_currency", priority |-> 2],
     [name |-> "markdown_bold_pipe", priority |-> 2],
     [name |-> "total_strong_context", priority |-> 2],
     [name |-> "generic_total", priority |-> 3],
     [name |-> "amount_currency_code", priority |-> 4],
     [name |-> "currency_symbol", priority |-> 4],
     [name |-> "euro_spaced", priority |-> 4]}

\* any(kw in pattern_name for kw in ['total', 'amount', 'paid', 'explicit'])
PatternImpliesStrong(pattern_name) ==
    pattern_name \in {"explicit_payment", "markdown_bold_total", "total_pipe_cad",
                      "total_cad_format", "total_strong_context", "generic_total",
                      "amount_currency_code"}

\* what create_amount_candidate finds around a match: a strong keyword at
\* the start of the line within 15 characters before it, 'subtotal' within
\* 30 characters before it, a blacklist term within 100 characters, and the
\* distance to the first strong keyword of the window (999: none counted)
AmountContexts ==
    {[strong_before |-> FALSE, subtotal_before |-> FALSE, blacklist_near |-> FALSE,
      keyword_distance |-> 999],
     [strong_before |-> FALSE, subtotal_before |-> FALSE, blacklist_near |-> FALSE,
      keyword_distance |-> 0],
     [strong_before |-> TRUE, subtotal_before |-> FALSE, blacklist_near |-> FALSE,
      keyword_distance |-> 0],
     [strong_before |-> FALSE, subtotal_before |-> TRUE, blacklist_near |-> FALSE,
      keyword_distance |-> 999],
     [strong_before |-> FALSE, subtotal_before |-> FALSE, blacklist_near |-> TRUE,
      keyword_distance |-> 999]}

AmountMatches ==
    [spec : {s \in AmountPatterns :
                s.name \in {"markdown_bold_total", "order_summary_pipe",
                            "generic_total", "amount_currency_code",
                            "currency_symbol"}},
     amount : {1000, 5952, 1500000},
     context : AmountContexts]

\* create_amount_candidate
CreateAmountCandidate(value, pattern_name, priority, context) ==
    LET has_strong_prefix ==
            PatternImpliesStrong(pattern_name) \/ context.strong_before
    IN  [value |-> value, pattern_name |-> pattern_name, priority |-> priority,
         proximity_to_keywords |-> context.keyword_distance,
         has_strong_prefix |-> has_strong_prefix,
         in_subtotal_context |-> context.subtotal_before /\ ~ has_strong_prefix,
         in_blacklist_context |-> context.blacklist_near]

\* the candidate loop of extract_amount
RECURSIVE AmountCandidatesOf(_)
AmountCandidatesOf(matches) ==
    IF matches = << >> THEN << >>
    ELSE LET m == Head(matches)
         IN  (IF m.amount <= 0 \/ (m.amount > 1000000 /\ m.spec.priority > 2)
              THEN << >>
              ELSE <<CreateAmountCandidate(m.amount, m.spec.name,
                                           m.spec.priority, m.context)>>)
             \o AmountCandidatesOf(Tail(matches))

SelectBestAmountParams == {"candidates", "text"}

ExtractAmountSelectArgs == {"candidates", "text", "return_score"}

ExtractAmountCaught == {"re.error", "AttributeError"}

\* the exception that leaves extract_amount ("none": it returns)
ExtractAmountEscapes ==
    LET e == CallRaises(SelectBestAmountParams, ExtractAmountSelectArgs)
    IN  IF e \in ExtractAmountCaught THEN "none" ELSE e

InitAmount ==
    /\ InitParser
    /\ stage = "amount_text"
    /\ \E ms \in UNION {[1..n -> AmountMatches] : n \in 0..MaxAmountMatches} :
          doc = [matches |-> ms, candidates |-> << >>]
    /\ result = EmptyResult
    /\ debug = EmptyDebug
    /\ selected = None

\* extract_amount up to its selector call
ExtractAmountCandidates ==
    /\ stage = "amount_text"
    /\ doc' = [doc EXCEPT !.candidates = AmountCandidatesOf(doc.matches)]
    /\ stage' = "amount_candidates"
    /\ UNCHANGED <<result, debug, selected>>
    /\ UNCHANGED parserVars

\* extract_amount from its selector call on
ExtractAmountSelect ==
    /\ stage = "amount_candidates"
    /\ IF ExtractAmountEscapes # "none"
       THEN /\ stage' = "raised"
            /\ UNCHANGED <<result, debug, selected>>
       ELSE LET best == SelectBestAmount(doc.candidates)
            IN  /\ stage' = "returned"
                /\ selected' = best
                /\ result' = [result EXCEPT !.amount =
                                 IF best = None THEN None ELSE Some(best[1].value)]
                /\ debug' = IF best = None THEN debug
                            ELSE [debug EXCEPT
                                     !.confidence_per_field =
                                         Put(@, "amount",
                                             RoundScore(ScoreAmountCandidate(best[1]))),
                                     !.candidates =
                                         Put(@, "amount",
                                             RecordedOptions(
                                                 SelectTopAmounts(doc.candidates, TopN)))]
    /\ UNCHANGED doc
    /\ UNCHANGED parserVars

\* select_best_amount(candidates, text), called as scoring.py defines it
SelectBestAmountCall ==
    /\ stage = "amount_candidates"
    /\ selected' = SelectBestAmount(doc.candidates)
    /\ stage' = "selected"
    /\ UNCHANGED <<doc, result, debug>>
    /\ UNCHANGED parserVars

NextAmount ==
    \/ ExtractAmountCandidates
    \/ ExtractAmountSelect
    \/ SelectBestAmountCall

SpecAmount == InitAmount /\ [][NextAmount]_vars

(***************************************************************************)
(* Claims about extract_amount, under SpecAmount.                          *)
(***************************************************************************)
\* the value of the only candidate of priority p, None when there is not
\* exactly one value among the candidates of that priority
ValueAtPriority(candidates, p) ==
    LET vs == {candidates[i].value :
                  i \in {j \in DOMAIN candidates : candidates[j].priority = p}}
    IN  IF Cardinality(vs) = 1 THEN Some(CHOOSE v \in vs : TRUE) ELSE None

\* C14: when a priority-1 pattern and a priority-4 pattern both yield a
\* candidate, at different values, the extraction ends by returning the
\* value of the priority-1 pattern, and the selector picks that candidate.
C14_PriorityOneBeatsPriorityFour ==
    LET one == ValueAtPriority(doc.candidates, 1)
        four == ValueAtPriority(doc.candidates, 4)
    IN  (/\ stage \in {"returned", "raised", "selected"}
         /\ one # None /\ four # None /\ one # four)
        => /\ stage # "raised"
           /\ selected # None
           /\ Some(selected[1].value) = one

\* the amounts that stand behind a subtotal label, and the amounts of the
\* other candidates of the document
SubtotalLabeled(matches) ==
    {matches[i].amount : i \in {j \in DOMAIN matches :
                                   matches[j].context.subtotal_before}}

NotSubtotalLabeled(matches) ==
    {matches[i].amount :
        i \in {j \in DOMAIN matches :
                  /\ ~ matches[j].context.subtotal_before
                  /\ AmountCandidatesOf(<<matches[j]>>) # << >>}}

\* C15: an amount labeled as a subtotal is never the selected amount when
\* the document also yields a candidate that is unlabeled or labeled as a
\* total.
C15_SubtotalNeverSelected ==
    (/\ stage \in {"returned", "selected"}
     /\ selected # None
     /\ NotSubtotalLabeled(doc.matches) # {})
    => \/ selected[1].value \notin SubtotalLabeled(doc.matches)
       \/ selected[1].value \in NotSubtotalLabeled(doc.matches)
(***************************************************************************)
(* extract_vendor on a forwarded email.  The forwarder's personal name is  *)
(* in the From: header at the top of the text (and in context.sender_name  *)
(* when a context is given); the merchant's name is further down, in the   *)
(* From: header of the quoted message, on a line of the body, or both.     *)
(* Strategy 2 reads the From: lines among lines[:15]; the fallback reads   *)
(* lines_to_use[:20] and skips the header lines of a forwarded message.    *)
(***************************************************************************)
FromHeaderLines == 15

EarlyLines == 20

Forwarder == "Jorden Shaw"

Merchant == "Uber"

\* the structure flags of the sample names: value.split(), istitle(),
\* the company suffixes, and _looks_like_person_name
NameFacts(value) ==
    IF value = Forwarder
    THEN [word_count |-> 2, is_title_case |-> TRUE,
          has_company_suffix |-> FALSE, looks_like_person |-> TRUE]
    ELSE [word_count |-> 1, is_title_case |-> TRUE,
          has_company_suffix |-> FALSE, looks_like_person |-> FALSE]

ForwardedEmails ==
    {e \in [sender_name : BOOLEAN,
            forwarder_line : {0, 1},
            merchant_header_line : {None, Some(3), Some(5), Some(14), Some(15)},
            merchant_body_line : {None, Some(2), Some(9), Some(11), Some(19),
                                  Some(20)}] :
        e.merchant_header_line # None \/ e.merchant_body_line # None}

\* create_vendor_candidate
CreateVendorCandidate(value, pattern_name, line_position, from_email_header) ==
    [value |-> value, pattern_name |-> pattern_name,
     from_email_header |-> from_email_header, from_subject |-> FALSE,
     has_company_suffix |-> NameFacts(value).has_company_suffix,
     is_title_case |-> NameFacts(value).is_title_case,
     line_position |-> line_position,
     word_count |-> NameFacts(value).word_count,
     looks_like_person |-> NameFacts(value).looks_like_person]

\* the candidates extract_vendor collects, in the order of its strategies
VendorCandidatesOf(e) ==
    LET s1 == IF e.sender_name
              THEN <<CreateVendorCandidate(Forwarder, "context_sender_name", 0, TRUE)>>
              ELSE << >>
        s2a == <<CreateVendorCandidate(Forwarder, "from_header_in_text",
                                       e.forwarder_line, TRUE)>>
        s2b == IF /\ e.merchant_header_line # None
                  /\ e.merchant_header_line[1] < FromHeaderLines
               THEN <<CreateVendorCandidate(Merchant, "from_header_in_text",
                                            e.merchant_header_line[1], TRUE)>>
               ELSE << >>
        fb == IF /\ e.merchant_body_line # None
                 /\ e.merchant_body_line[1] < EarlyLines
              THEN <<CreateVendorCandidate(Merchant, "early_line",
                                           e.merchant_body_line[1], FALSE)>>
              ELSE << >>
    IN  s1 \o s2a \o s2b \o fb

InitVendor ==
    /\ InitParser
    /\ stage = "vendor_text"
    /\ \E e \in ForwardedEmails : doc = [email |-> e, candidates |-> << >>]
    /\ result = EmptyResult
    /\ debug = EmptyDebug
    /\ selected = None

\* extract_vendor up to its selector call
ExtractVendorCandidates ==
    /\ stage = "vendor_text"
    /\ doc' = [doc EXCEPT !.candidates = VendorCandidatesOf(doc.email)]
    /\ stage' = "vendor_candidates"
    /\ UNCHANGED <<result, debug, selected>>
    /\ UNCHANGED parserVars

\* extract_vendor from its selector call on
ExtractVendorReturn ==
    /\ stage = "vendor_candidates"
    /\ IF ExtractVendorEscapes # "none"
       THEN /\ stage' = "raised"
            /\ UNCHANGED <<result, debug, selected>>
       ELSE LET best == SelectBestVendor(doc.candidates)
            IN  /\ stage' = "returned"
                /\ selected' = best
                /\ result' = [result EXCEPT !.vendor =
                                 IF best = None THEN None ELSE Some(best[1].value)]
                /\ debug' = IF best = None THEN debug
                            ELSE [debug EXCEPT
                                     !.confidence_per_field =
                                         Put(@, "vendor",
                                             RoundScore(ScoreVendorCandidate(best[1]))),
                                     !.candidates =
                                         Put(@, "vendor",
                                             RecordedOptions(
                                                 SelectTopVendors(doc.candidates, TopN)))]
    /\ UNCHANGED doc
    /\ UNCHANGED parserVars

\* select_best_vendor(candidates), called as scoring.py defines it
SelectBestVendorCall ==
    /\ stage = "vendor_candidates"
    /\ selected' = SelectBestVendor(doc.candidates)
    /\ stage' = "selected"
    /\ UNCHANGED <<doc, result, debug>>
    /\ UNCHANGED parserVars

NextVendor ==
    \/ ExtractVendorCandidates
    \/ ExtractVendorReturn
    \/ SelectBestVendorCall

SpecVendor == InitVendor /\ [][NextVendor]_vars

(***************************************************************************)
(* Claims about extract_vendor, under SpecVendor.                          *)
(***************************************************************************)
\* C16: in a forwarded email with the forwarder's personal name in the
\* From: header and the merchant's name further down, the extraction ends
\* by returning the merchant: it does not raise, and the selected vendor
\* is the merchant and not the forwarder.
C16_ForwardedVendorIsMerchant ==
    stage \in {"returned", "raised", "selected"}
    => /\ stage # "raised"
       /\ selected # None
       /\ selected[1].value = Merchant
       /\ selected[1].value # Forwarder
(***************************************************************************)
(* parse_money (app/utils/money.py).  An amount string is a sequence of    *)
(* characters, built from a few pieces so that short inputs reach the      *)
(* parentheses, the minus sign, the currency prefixes, both separators     *)
(* and an exponent beyond the range of the decimal context.  A Decimal is  *)
(* a record of its sign, its coefficient and its exponent; coefficients    *)
(* and exponents above NumberCap are kept as NumberCap, which is beyond    *)
(* every threshold the code compares with.                                 *)
(***************************************************************************)
MaxPieces == 4

MoneyPieces ==
    {<<"(">>, <<")">>, <<"-">>, <<"$">>, <<"U", "S", "D">>, <<" ">>, <<",">>,
     <<".">>, <<"e">>, <<"5">>, <<"0">>, <<"9", "9", "9", "9", "9", "9", "9">>}

RECURSIVE Flatten(_)
Flatten(ps) == IF ps = << >> THEN << >> ELSE Head(ps) \o Flatten(Tail(ps))

MoneyStrings ==
    {Flatten(ps) : ps \in UNION {[1..n -> MoneyPieces] : n \in 0..MaxPieces}}

\* MoneyFormat, and None for a call without format_hint
MoneyFormats == {"US", "EUROPEAN", "AUTO"}

FormatHints == {None} \cup {Some(f) : f \in MoneyFormats}

\* the sanity ceiling of parse_money
MoneyCeilingDigits == 6

\* decimal.getcontext(): Emax, and Etiny = Emin - prec + 1
Emax == 999999

Etiny == 0 - 1000026

\* the longest exponent the Decimal constructor converts
MaxExponentDigits == 18

NumberCap == 100000000

IsDigit(ch) == ch \in {"0", "5", "9"}

DigitValue(ch) == IF ch = "5" THEN 5 ELSE IF ch = "9" THEN 9 ELSE 0

\* [A-Z] under re.IGNORECASE
IsAlpha(ch) == ch \in {"U", "S", "D", "e"}

AllDigits(s) == \A i \in DOMAIN s : IsDigit(s[i])

Contains(s, ch) == \E i \in DOMAIN s : s[i] = ch

\* str.replace(ch, '')
RemoveChar(s, ch) ==
    LET Keep(c) == c # ch IN SelectSeq(s, Keep)

RECURSIVE LStrip(_)
LStrip(s) == IF s # << >> /\ s[1] = " " THEN LStrip(Tail(s)) ELSE s

RECURSIVE RStrip(_)
RStrip(s) ==
    IF s # << >> /\ s[Len(s)] = " " THEN RStrip(SubSeq(s, 1, Len(s) - 1)) ELSE s

\* str.strip()
Strip(s) == RStrip(LStrip(s))

\* re.sub(r'[$...]\s*|[A-Z]{3}\s*', '', cleaned, flags=re.IGNORECASE)
RECURSIVE StripCurrency(_)
StripCurrency(s) ==
    IF s = << >> THEN << >>
    ELSE IF s[1] = "$" THEN StripCurrency(LStrip(Tail(s)))
    ELSE IF Len(s) >= 3 /\ IsAlpha(s[1]) /\ IsAlpha(s[2]) /\ IsAlpha(s[3])
         THEN StripCurrency(LStrip(SubSeq(s, 4, Len(s))))
    ELSE <<s[1]>> \o StripCurrency(Tail(s))

\* _detect_money_format
DetectMoneyFormat(s) ==
    LET n == Len(s)
        firstDot == CHOOSE i \in DOMAIN s :
                        s[i] = "." /\ \A j \in 1..(i - 1) : s[j] # "."
        lastComma == CHOOSE i \in DOMAIN s :
                         s[i] = "," /\ \A j \in (i + 1)..n : s[j] # ","
    IN  IF n >= 3 /\ s[n - 2] = "," /\ IsDigit(s[n - 1]) /\ IsDigit(s[n])
        THEN "EUROPEAN"
        ELSE IF Contains(s, " ") /\ ~ Contains(s, ".") THEN "EUROPEAN"
        ELSE IF Contains(s, ".") /\ Contains(s, ",") /\ firstDot < lastComma
             THEN "EUROPEAN"
        ELSE "US"

RECURSIVE StripZeros(_)
StripZeros(ds) == IF ds # << >> /\ ds[1] = "0" THEN StripZeros(Tail(ds)) ELSE ds

\* int(ds), kept up to NumberCap
RECURSIVE CappedNat(_, _)
CappedNat(ds, acc) ==
    IF ds = << >> THEN acc
    ELSE CappedNat(Tail(ds), Min(NumberCap, acc * 10 + DigitValue(ds[1])))

\* Decimal(s): None for a string the constructor rejects
\* (decimal.InvalidOperation), else the number
DecimalOf(s) ==
    LET negative == s # << >> /\ s[1] = "-"
        body == IF negative THEN Tail(s) ELSE s
        es == {i \in DOMAIN body : body[i] = "e"}
        epos == IF es = {} THEN Len(body) + 1
                ELSE CHOOSE i \in es : \A j \in es : i <= j
        mantissa == SubSeq(body, 1, epos - 1)
        exppart == SubSeq(body, epos + 1, Len(body))
        expneg == exppart # << >> /\ exppart[1] = "-"
        expdigits == IF expneg THEN Tail(exppart) ELSE exppart
        dots == {i \in DOMAIN mantissa : mantissa[i] = "."}
        dpos == IF dots = {} THEN Len(mantissa) + 1 ELSE CHOOSE i \in dots : TRUE
        intpart == SubSeq(mantissa, 1, dpos - 1)
        fracpart == SubSeq(mantissa, dpos + 1, Len(mantissa))
        digits == StripZeros(intpart \o fracpart)
        expval == CappedNat(expdigits, 0)
        valid == /\ Cardinality(dots) <= 1
                 /\ AllDigits(intpart) /\ AllDigits(fracpart)
                 /\ Len(intpart) + Len(fracpart) >= 1
                 /\ es # {} => (expdigits # << >> /\ AllDigits(expdigits))
                 /\ Len(StripZeros(expdigits)) <= MaxExponentDigits
    IN  IF ~ valid THEN None
        ELSE Some([negative |-> negative,
                   zero |-> digits = << >>,
                   ndigits |-> Max(1, Len(digits)),
                   coeff |-> CappedNat(digits, 0),
                   power_of_ten |-> /\ digits # << >>
                                    /\ CappedNat(<<digits[1]>>, 0) = 1
                                    /\ StripZeros(Tail(digits)) = << >>,
                   exp |-> (IF expneg THEN 0 - expval ELSE expval)
                           - Len(fracpart)])

\* _parse_us_format
ParseUsFormat(s) == DecimalOf(RemoveChar(RemoveChar(s, ","), " "))

\* _parse_european_format
ParseEuropeanFormat(s) ==
    LET cleaned == RemoveChar(RemoveChar(s, "."), " ")
    IN  DecimalOf([i \in DOMAIN cleaned |->
                      IF cleaned[i] = "," THEN "." ELSE cleaned[i]])

\* Decimal.adjusted()
Adjusted(d) == d.exp + d.ndigits - 1

\* what a unary operation of the decimal context raises: the context
\* traps Overflow, and rounds a result below its range without raising
ContextRaises(d) == IF ~ d.zero /\ Adjusted(d) > Emax THEN "Overflow" ELSE "none"

\* -result, where it does not raise (0 - result in the context: a zero
\* comes out unsigned)
Negate(d) ==
    IF d.zero THEN [d EXCEPT !.negative = FALSE, !.exp = Max(Etiny, Min(Emax, @))]
    ELSE IF Adjusted(d) < Etiny
         THEN [d EXCEPT !.negative = ~ @, !.zero = TRUE, !.ndigits = 1,
                        !.coeff = 0, !.power_of_ten = FALSE, !.exp = Etiny]
    ELSE [d EXCEPT !.negative = ~ @]

\* abs(result) > 1_000_000
ExceedsCeiling(d) ==
    /\ ~ d.zero
    /\ \/ Adjusted(d) > MoneyCeilingDigits
       \/ Adjusted(d) = MoneyCeilingDigits /\ ~ d.power_of_ten

\* the exceptions the try block of parse_money catches
ParseMoneyCaught == {"InvalidOperation", "ValueError", "AttributeError"}

MoneyNull == [kind |-> "null"]

MoneyRaised(e) == [kind |-> "raised", exception |-> e]

MoneyValue(d) == [kind |-> "decimal", value |-> d]

\* what an exception raised inside the try block becomes
Escapes(e) == IF e \in ParseMoneyCaught THEN MoneyNull ELSE MoneyRaised(e)

\* parse_money(amount_str, format_hint, allow_negative)
ParseMoney(amount_str, format_hint, allow_negative) ==
    LET stripped == Strip(amount_str)
        parens == /\ stripped # << >>
                  /\ stripped[1] = "(" /\ stripped[Len(stripped)] = ")"
        inner == IF parens THEN Strip(SubSeq(stripped, 2, Len(stripped) - 1))
                 ELSE stripped
        minus == inner # << >> /\ inner[1] = "-"
        unsigned == IF minus THEN Strip(Tail(inner)) ELSE inner
        is_negative == parens \/ minus
        cleaned == Strip(StripCurrency(unsigned))
        hinted == IF format_hint = None THEN "AUTO" ELSE format_hint[1]
        detected_format == IF hinted = "AUTO" THEN DetectMoneyFormat(cleaned)
                           ELSE hinted
        parsed == IF detected_format = "EUROPEAN" THEN ParseEuropeanFormat(cleaned)
                  ELSE ParseUsFormat(cleaned)
        result0 == parsed[1]
        signed == IF is_negative THEN Negate(result0) ELSE result0
    IN  IF amount_str = << >> THEN MoneyNull
        ELSE IF parens /\ ~ allow_negative THEN MoneyNull
        ELSE IF minus /\ ~ allow_negative THEN MoneyNull
        ELSE IF cleaned = << >> THEN MoneyNull
        ELSE IF parsed = None THEN MoneyNull
        ELSE IF is_negative /\ ContextRaises(result0) # "none"
             THEN Escapes(ContextRaises(result0))
        ELSE IF ContextRaises(signed) # "none"
             THEN Escapes(ContextRaises(signed))
        ELSE IF ExceedsCeiling(signed) THEN MoneyNull
        ELSE MoneyValue(signed)

InitMoney ==
    /\ InitParser
    /\ stage = "money_call"
    /\ \E s \in MoneyStrings, h \in FormatHints, n \in BOOLEAN :
          doc = [amount_str |-> s, format_hint |-> h, allow_negative |-> n,
                 out |-> None]
    /\ result = EmptyResult
    /\ debug = EmptyDebug
    /\ selected = None

\* one call of parse_money
ParseMoneyCall ==
    /\ stage = "money_call"
    /\ doc' = [doc EXCEPT !.out = Some(ParseMoney(doc.amount_str, doc.format_hint,
                                                  doc.allow_negative))]
    /\ stage' = "money_done"
    /\ UNCHANGED <<result, debug, selected>>
    /\ UNCHANGED parserVars

NextMoney == ParseMoneyCall

SpecMoney == InitMoney /\ [][NextMoney]_vars
(***************************************************************************)
(* Claims about parse_money, under SpecMoney.                              *)
(***************************************************************************)
\* C17: parse_money never raises: every call returns null or a decimal
\* whose magnitude is at most 1,000,000.
C17_ParseMoneyNeverRaises ==
    (stage = "money_done")
    => /\ doc.out[1].kind # "raised"
       /\ doc.out[1].kind = "decimal" => ~ ExceedsCeiling(doc.out[1].value)

\* a decimal below zero
IsNegative(d) == d.negative /\ ~ d.zero

\* C18: with allow_negative = false, parse_money never returns a negative
\* value.
C18_NoNegativeUnlessAllowed ==
    (stage = "money_done" /\ ~ doc.allow_negative)
    => ~ (doc.out[1].kind = "decimal" /\ IsNegative(doc.out[1].value))
(***************************************************************************)
(* Claims about cross-validation, under SpecTail.                          *)
(***************************************************************************)
\* C19: cross-validation has no effect on the extracted values: no step
\* from the extraction to the return of parse() changes vendor, amount,
\* currency, date or tax, whether validation passes, fails or is skipped;
\* the validation step itself writes only the amount_validation record
\* and, exactly when the check fails, one more warning.
C19_ValidationLeavesValues ==
    [][/\ \A f \in Fields : result'[f] = result[f]
       /\ stage = "extracted"
          => /\ result' = result
             /\ \A k \in DOMAIN debug \ {"amount_validation", "warnings"} :
                   debug'[k] = debug[k]
             /\ LET v == debug'.amount_validation
                IN  debug'.warnings =
                        IF v # None /\ ~ v[1].is_consistent
                        THEN Append(debug.warnings, InconsistencyWarning)
                        ELSE debug.warnings]_vars

\* parse() has returned after a failed validation
C19_Witness ==
    /\ stage = "returned"
    /\ debug.amount_validation # None
    /\ ~ debug.amount_validation[1].is_consistent
    /\ result.amount # None /\ result.tax # None /\ result.vendor # None
    /\ HasInconsistencyWarning
(***************************************************************************)
(* IngestionService._upsert_receipt_record (app/services/ingestion.py).    *)
(* parsed_data is a dict: {} when no text was extracted, else the result   *)
(* of ReceiptParser.parse, whose 'debug' entry is a dict with a 'warnings' *)
(* list.  The receipts table has a UNIQUE constraint on (user_id,          *)
(* file_hash); the upsert ignores a conflicting row, and the database call *)
(* may fail.  Confidence is in hundredths, amounts are in cents.           *)
(***************************************************************************)
MaxUpserts == 2

UserId == "u1"

FileHashes == {"h1", "h2"}

\* the review threshold of _upsert_receipt_record, and its 'low' mark
UpsertReviewThreshold == 70

UpsertLowConfidence == 50

DefaultedWarning == "Currency defaulted to USD (no strong evidence found)"

\* results of parse(): needs_review is set when the vendor is missing or
\* the confidence is below 0.7, and may be set above it (a low per-field
\* confidence); without a vendor the weights leave at most 0.75
ParseResults ==
    {r \in [vendor : {None, Some("Uber")},
            amount : {Some(1413)},
            currency : {None, Some("CAD"), Some("USD")},
            date : {Some("2024-01-15")},
            tax : {None},
            confidence : {60, 80},
            needs_review : {Some(TRUE), Some(FALSE)},
            debug : {[warnings |-> << >>]}] :
        /\ (r.vendor = None \/ r.confidence < UpsertReviewThreshold)
               => r.needs_review = Some(TRUE)
        /\ r.vendor = None => r.confidence = 60}

\* what _process_source passes as parsed_data
ParsedData == {<< >>} \cup ParseResults

\* outcomes of self.supabase.table('receipts').upsert(...).execute()
DbOutcomes == {"ok", "error"}

\* a currency policy that stores what the parser returned
ParsedCurrencyOnly(parsed_data) ==
    [currency |-> Get(parsed_data, "currency", None), currency_source |-> "parsed"]

\* currency and currency_source of _upsert_receipt_record
DefaultedCurrency(parsed_data) ==
    LET currency == Get(parsed_data, "currency", None)
    IN  IF currency = None
        THEN [currency |-> Some("USD"), currency_source |-> "defaulted_to_usd"]
        ELSE [currency |-> currency, currency_source |-> "parsed"]

\* parsed_data.get('debug') once the currency provenance is recorded
IngestionDebug(parsed_data) ==
    LET policy == DefaultedCurrency(parsed_data)
        debug0 == Get(parsed_data, "debug", << >>)
        defaulted == Get(parsed_data, "currency", None) = None
        warned == Put(debug0, "warnings",
                      Append(Get(debug0, "warnings", << >>), DefaultedWarning))
        stored == IF defaulted THEN Some(warned)
                  ELSE IF "debug" \in DOMAIN parsed_data THEN Some(parsed_data.debug)
                  ELSE None
    IN  IF stored # None /\ DOMAIN stored[1] # {}
        THEN Some(Put(stored[1], "currency_source", policy.currency_source))
        ELSE stored

\* review_reason: the reasons joined by '; '
ReviewReason(parsed_data) ==
    LET confidence == Get(parsed_data, "confidence", 0)
        missing(k, label) == IF Get(parsed_data, k, None) = None
                             THEN <<label>> ELSE << >>
    IN  IF confidence < UpsertReviewThreshold
        THEN Some(missing("vendor", "missing vendor")
                  \o missing("amount", "missing amount")
                  \o missing("date", "missing date")
                  \o (IF DefaultedCurrency(parsed_data).currency_source
                            = "defaulted_to_usd"
                      THEN <<"defaulted currency">> ELSE << >>)
                  \o (IF confidence < UpsertLowConfidence
                      THEN <<"low confidence">> ELSE <<"medium confidence">>))
        ELSE None

\* _decimal_to_str
DecimalToStr(value) == IF value = None THEN None ELSE Some([str |-> value[1]])

\* receipt_data
ReceiptData(parsed_data, file_hash) ==
    [user_id |-> UserId,
     file_hash |-> file_hash,
     vendor |-> Get(parsed_data, "vendor", None),
     amount |-> DecimalToStr(Get(parsed_data, "amount", None)),
     currency |-> DefaultedCurrency(parsed_data).currency,
     date |-> Get(parsed_data, "date", None),
     tax |-> DecimalToStr(Get(parsed_data, "tax", None)),
     needs_review |-> Get(parsed_data, "confidence", 0) < UpsertReviewThreshold,
     review_reason |-> ReviewReason(parsed_data),
     ingestion_debug |-> IngestionDebug(parsed_data)]

\* a row of the receipts table
Row(id, receipt_data) == [id |-> id, data |-> receipt_data]

Conflicts(table, receipt_data) ==
    \E r \in table : /\ r.data.user_id = receipt_data.user_id
                     /\ r.data.file_hash = receipt_data.file_hash

InitUpsert ==
    /\ InitParser
    /\ stage = "upsert_idle"
    /\ doc = [table |-> {}, upserts |-> 0, parsed_data |-> << >>,
              file_hash |-> "h1", returned |-> None]
    /\ result = EmptyResult
    /\ debug = EmptyDebug
    /\ selected = None

\* _process_source calls _upsert_receipt_record
UpsertCall ==
    /\ stage \in {"upsert_idle", "upserted"}
    /\ doc.upserts < MaxUpserts
    /\ \E p \in ParsedData, h \in FileHashes :
          doc' = [doc EXCEPT !.parsed_data = p, !.file_hash = h,
                             !.upserts = @ + 1, !.returned = None]
    /\ stage' = "upsert_called"
    /\ UNCHANGED <<result, debug, selected>>
    /\ UNCHANGED parserVars

\* _upsert_receipt_record
UpsertReceiptRecord ==
    /\ stage = "upsert_called"
    /\ \E db \in DbOutcomes :
          LET receipt_data == ReceiptData(doc.parsed_data, doc.file_hash)
              id == Cardinality(doc.table) + 1
          IN  IF db = "error" \/ Conflicts(doc.table, receipt_data)
              THEN doc' = [doc EXCEPT !.returned = None]
              ELSE doc' = [doc EXCEPT
                              !.table = @ \cup {Row(id, receipt_data)},
                              !.returned = Some(id)]
    /\ stage' = "upserted"
    /\ UNCHANGED <<result, debug, selected>>
    /\ UNCHANGED parserVars

NextUpsert ==
    \/ UpsertCall
    \/ UpsertReceiptRecord

SpecUpsert == InitUpsert /\ [][NextUpsert]_vars

(***************************************************************************)
(* Claims about _upsert_receipt_record, under SpecUpsert.                  *)
(***************************************************************************)
\* the row the last call stored
StoredRow == CHOOSE r \in doc.table : r.id = doc.returned[1]

HasDefaultedWarning(row) ==
    /\ row.data.ingestion_debug # None
    /\ \E i \in DOMAIN row.data.ingestion_debug[1].warnings :
          row.data.ingestion_debug[1].warnings[i] = DefaultedWarning

CurrencySource(row) ==
    IF row.data.ingestion_debug = None THEN None
    ELSE Get(row.data.ingestion_debug[1], "currency_source", None)

\* C20: no stored receipt has a null currency; a receipt stored from a
\* parse result with a null currency has currency "USD", currency_source
\* "defaulted_to_usd" and the defaulting warning; one stored from a parse
\* result with a currency has that currency and currency_source "parsed".
C20_CurrencyDefaultedWithProvenance ==
    /\ \A r \in doc.table : r.data.currency # None
    /\ (stage = "upserted" /\ doc.returned # None)
       => LET parsed == Get(doc.parsed_data, "currency", None)
          IN  IF parsed = None
              THEN /\ StoredRow.data.currency = Some("USD")
                   /\ CurrencySource(StoredRow) = "defaulted_to_usd"
                   /\ HasDefaultedWarning(StoredRow)
              ELSE /\ StoredRow.data.currency = parsed
                   /\ CurrencySource(StoredRow) = "parsed"
                   /\ ~ HasDefaultedWarning(StoredRow)

\* a receipt with a defaulted currency has just been stored next to one
\* whose currency was parsed
C20_Witness ==
    /\ stage = "upserted" /\ doc.returned # None
    /\ Get(doc.parsed_data, "currency", None) = None
    /\ StoredRow.data.currency = Some("USD")
    /\ \E r \in doc.table : /\ r.data.currency = Some("CAD")
                            /\ CurrencySource(r) = "parsed"

(***************************************************************************)
(* IngestionService.process_email and _process_source                      *)
(* (app/services/ingestion.py), with the processed_emails status writes of *)
(* EmailService and the file store of StorageService.                      *)
(* A message has a list of attachments and possibly a body.  Each source   *)
(* has the SHA-256 of its bytes, the text OCR extracts from it, and what   *)
(* ReceiptParser.parse does with that text: << >> when parse raises, <<r>> *)
(* when it returns r (the parse() of Spec raises on every text; the        *)
(* sources with a result stand for a parse() that returns what its         *)
(* signature declares).                                                    *)
(* The services may fail: get_message, the attachment                      *)
(* extraction, an upload, OCR, a query or an upsert.  The writes of the    *)
(* message status and delete_file succeed.  doc holds the database, the    *)
(* file store and the locals of the running call.                          *)
(***************************************************************************)
MaxRuns == 2

MaxAttachments == 1

EmailResult(vendor, amount) ==
    [vendor |-> Some(vendor), amount |-> Some(amount), currency |-> Some("CAD"),
     date |-> Some("2024-01-15"), tax |-> None, confidence |-> 80,
     needs_review |-> Some(FALSE), debug |-> [warnings |-> << >>]]

\* attachments: one without extractable text, a receipt, one on which
\* parse raises, and a file that is no receipt file
AttachmentSources ==
    {[file_hash |-> "a1", receipt_file |-> TRUE, text |-> "", parse |-> None],
     [file_hash |-> "a2", receipt_file |-> TRUE, text |-> "receipt",
      parse |-> Some(EmailResult("Uber", 1413))],
     [file_hash |-> "a3", receipt_file |-> TRUE, text |-> "receipt",
      parse |-> None],
     [file_hash |-> "a4", receipt_file |-> FALSE, text |-> "", parse |-> None]}

\* bodies: the text of the attached receipt, another receipt, and one on
\* which parse raises
BodySources ==
    {[file_hash |-> "b1", receipt_file |-> TRUE, text |-> "receipt",
      parse |-> Some(EmailResult("Uber", 1413))],
     [file_hash |-> "b2", receipt_file |-> TRUE, text |-> "receipt",
      parse |-> Some(EmailResult("Lyft", 2500))],
     [file_hash |-> "b3", receipt_file |-> TRUE, text |-> "receipt",
      parse |-> None]}

SeqsUpTo(S, n) == UNION {[1..k -> S] : k \in 0..n}

Messages ==
    [attachments : SeqsUpTo(AttachmentSources, MaxAttachments),
     body : {None} \cup {Some(b) : b \in BodySources}]

TerminalStatuses == {"success", "no_receipts", "failed"}

\* generate_file_path: the path is derived from the user and the hash
FilePath(file_hash) == <<UserId, file_hash>>

\* _check_duplicate_by_hash: a failed query counts as 'no duplicate'
CheckDuplicateByHash(table, file_hash, query) ==
    /\ query = "ok"
    /\ \E r \in table : r.data.user_id = UserId /\ r.data.file_hash = file_hash

\* _check_semantic_duplicate
CheckSemanticDuplicate(table, vendor, amount, date, query) ==
    LET fields_present == (IF vendor # None THEN 1 ELSE 0)
                          + (IF amount # None THEN 1 ELSE 0)
                          + (IF date # None THEN 1 ELSE 0)
    IN  /\ fields_present >= 2
        /\ query = "ok"
        /\ \E r \in table :
              /\ r.data.user_id = UserId
              /\ vendor # None => r.data.vendor = vendor
              /\ amount # None => r.data.amount = DecimalToStr(amount)
              /\ date # None => r.data.date = date

\* the outcomes of the services one _process_source call uses
SourceEnvs ==
    [upload : {"ok", "error"}, ocr : {"ok", "error"},
     query : {"ok", "error"}, db : DbOutcomes]

NoFault == [upload |-> "ok", ocr |-> "ok", query |-> "ok", db |-> "ok"]

\* the except branch of _process_source: delete the uploaded file
CleanUp(table, storage, file_path) ==
    [table |-> table, storage |-> storage \ {file_path},
     receipt_id |-> None, uploaded |-> TRUE]

\* the return statements of _process_source after the upload
ReturnNone(table, storage) ==
    [table |-> table, storage |-> storage,
     receipt_id |-> None, uploaded |-> TRUE]

\* _upsert_receipt_record as _process_source calls it
UpsertRecord(table, storage, parsed_data, file_hash, db) ==
    LET receipt_data == ReceiptData(parsed_data, file_hash)
        id == Cardinality(table) + 1
    IN  IF db = "error" \/ Conflicts(table, receipt_data)
        THEN ReturnNone(table, storage)
        ELSE [table |-> table \cup {Row(id, receipt_data)},
              storage |-> storage, receipt_id |-> Some(id), uploaded |-> TRUE]

\* _process_source: the database, the file store and the returned id
ProcessSource(table, storage, source, pre_parsed, env) ==
    LET file_path == FilePath(source.file_hash)
        stored == storage \cup {file_path}
        extracted == IF pre_parsed THEN source.text
                     ELSE IF env.ocr = "ok" THEN source.text ELSE ""
    IN  IF env.upload = "error"
        THEN [table |-> table, storage |-> storage,
              receipt_id |-> None, uploaded |-> FALSE]
        ELSE IF ~ pre_parsed /\ env.ocr = "error"
        THEN CleanUp(table, stored, file_path)
        ELSE IF extracted = ""
        THEN UpsertRecord(table, stored, << >>, source.file_hash, env.db)
        ELSE IF source.parse = None
        THEN CleanUp(table, stored, file_path)
        ELSE LET parsed_data == source.parse[1]
             IN  IF CheckSemanticDuplicate(table, parsed_data.vendor,
                                           parsed_data.amount, parsed_data.date,
                                           env.query)
                 THEN ReturnNone(table, stored)
                 ELSE UpsertRecord(table, stored, parsed_data,
                                   source.file_hash, env.db)

\* an end that records nothing
NoFinalStatus(receipt_count, receipts_skipped) == "processing"

\* the status process_email records at its end
FinalStatus(receipt_count, receipts_skipped) ==
    IF receipt_count > 0 THEN "success"
    ELSE IF receipts_skipped > 0 THEN "success"
    ELSE "no_receipts"

EmailLocals ==
    [idx |-> 1, receipts_created |-> 0, receipts_skipped |-> 0,
     marked |-> FALSE, writes |-> 0]

InitEmail ==
    /\ InitParser
    /\ stage = "email_idle"
    /\ \E m \in Messages :
          doc = [message |-> m, status |-> "none", table |-> {}, storage |-> {},
                 runs |-> 0, faults |-> FALSE, after_first |-> {},
                 last |-> None, locals |-> EmailLocals]
    /\ result = EmptyResult
    /\ debug = EmptyDebug
    /\ selected = None

EmailFrame == UNCHANGED <<result, debug, selected>> /\ UNCHANGED parserVars

\* process_email is called for the message
ProcessEmailCall ==
    /\ stage \in {"email_idle", "email_returned"}
    /\ doc.runs < MaxRuns
    /\ doc' = [doc EXCEPT !.runs = @ + 1, !.locals = EmailLocals, !.last = None]
    /\ stage' = "email_called"
    /\ EmailFrame

\* the rows of the receipts table when the first run returns
AfterFirst(d) == IF d.runs = 1 THEN d.table ELSE d.after_first

\* mark_message_processed(message_id, user_id, status) and the return
MarkProcessed(d, status) ==
    [d EXCEPT !.status = status, !.locals.writes = @ + 1,
              !.after_first = AfterFirst(d)]

\* get_message, extract_email_metadata and mark_message_processing
GetMessage ==
    /\ stage = "email_called"
    /\ \E message \in {"ok", "none", "error"} :
          CASE message = "ok" ->
                 /\ doc' = [doc EXCEPT !.status = "processing",
                                       !.locals.marked = TRUE]
                 /\ stage' = "email_marked"
            [] message = "none" ->
                 /\ doc' = [MarkProcessed(doc, "failed") EXCEPT !.faults = TRUE]
                 /\ stage' = "email_returned"
            [] message = "error" ->
                 /\ doc' = [MarkProcessed(doc, "failed") EXCEPT !.faults = TRUE]
                 /\ stage' = "email_returned"
    /\ EmailFrame

\* extract_attachments; an exception reaches the outer except
ExtractAttachments ==
    /\ stage = "email_marked"
    /\ \E extracted \in {"ok", "error"} :
          IF extracted = "ok"
          THEN doc' = doc /\ stage' = "email_attachments"
          ELSE /\ doc' = [MarkProcessed(doc, "failed") EXCEPT !.faults = TRUE]
               /\ stage' = "email_returned"
    /\ EmailFrame

\* one source of the message: the duplicate check and _process_source
SourceStep(d, source, pre_parsed, env) ==
    IF CheckDuplicateByHash(d.table, source.file_hash, env.query)
    THEN [d EXCEPT !.locals.receipts_skipped = @ + 1,
                   !.faults = @ \/ env # NoFault]
    ELSE LET r == ProcessSource(d.table, d.storage, source, pre_parsed, env)
         IN  [d EXCEPT !.table = r.table, !.storage = r.storage,
                       !.locals.receipts_created =
                           IF r.receipt_id # None THEN @ + 1 ELSE @,
                       !.last = Some([file_hash |-> source.file_hash,
                                      uploaded |-> r.uploaded,
                                      receipt_id |-> r.receipt_id]),
                       !.faults = @ \/ env # NoFault]

\* one iteration of the loop over the attachments
ProcessAttachment ==
    /\ stage = "email_attachments"
    /\ doc.locals.idx <= Len(doc.message.attachments)
    /\ LET source == doc.message.attachments[doc.locals.idx]
       IN  IF ~ source.receipt_file
           THEN doc' = [doc EXCEPT !.locals.idx = @ + 1]
           ELSE \E env \in SourceEnvs :
                   doc' = [SourceStep(doc, source, FALSE, env)
                              EXCEPT !.locals.idx = @ + 1]
    /\ UNCHANGED stage
    /\ EmailFrame

\* after the loop: the body is processed when there is no attachment or no
\* receipt was created from one
ProcessBody ==
    /\ stage = "email_attachments"
    /\ doc.locals.idx > Len(doc.message.attachments)
    /\ IF /\ \/ Len(doc.message.attachments) = 0
             \/ doc.locals.receipts_created = 0
          /\ doc.message.body # None
       THEN \E env \in SourceEnvs :
               doc' = SourceStep(doc, doc.message.body[1], TRUE, env)
       ELSE doc' = doc
    /\ stage' = "email_final"
    /\ EmailFrame

\* the final status is recorded and process_email returns
RecordFinalStatus ==
    /\ stage = "email_final"
    /\ doc' = MarkProcessed(doc, FinalStatus(doc.locals.receipts_created,
                                             doc.locals.receipts_skipped))
    /\ stage' = "email_returned"
    /\ EmailFrame

NextEmail ==
    \/ ProcessEmailCall
    \/ GetMessage
    \/ ExtractAttachments
    \/ ProcessAttachment
    \/ ProcessBody
    \/ RecordFinalStatus

SpecEmail == InitEmail /\ [][NextEmail]_vars

\* a call of process_email that has started runs to its return
SpecEmailFair ==
    /\ SpecEmail
    /\ WF_vars(GetMessage)
    /\ WF_vars(ExtractAttachments)
    /\ WF_vars(ProcessAttachment)
    /\ WF_vars(ProcessBody)
    /\ WF_vars(RecordFinalStatus)

(***************************************************************************)
(* Claims about process_email and _process_source.                         *)
(***************************************************************************)
\* C21: when process_email returns, the message has one of the statuses
\* success, no_receipts and failed, written exactly once by the call; and a
\* message marked 'processing' reaches such a return.
C21_TerminalStatusWritten ==
    /\ [](stage = "email_returned"
             => /\ doc.status \in TerminalStatuses
                /\ doc.locals.writes = 1)
    /\ (doc.status = "processing")
       ~> (stage = "email_returned" /\ doc.status \in TerminalStatuses)

\* the second call marked the message 'processing' and returned after an
\* exception with the status failed
C21_Witness ==
    /\ stage = "email_returned"
    /\ doc.locals.marked
    /\ doc.status = "failed"
    /\ doc.runs = 2

C23_NoOrphanFile ==
    (doc.last # None /\ doc.last[1].uploaded /\ doc.last[1].receipt_id = None
     /\ ~ \E r \in doc.table : r.data.file_hash = doc.last[1].file_hash)
        => FilePath(doc.last[1].file_hash) \notin doc.storage

\* C24: a receipt stored from a parse result whose needs_review is true is
\* stored with needs_review true.
C24_ReviewFlagKept ==
    (stage = "upserted" /\ doc.returned # None
     /\ Get(doc.parsed_data, "needs_review", None) = Some(TRUE))
        => StoredRow.data.needs_review

(***************************************************************************)
(* SpecOrder: select_best_amount / select_best_vendor applied to a         *)
(* candidate list and then to a reordering of the same list.  The amount   *)
(* candidates are those of SpecSelect with two different values; the       *)
(* vendor candidates are those of SpecSelect.                              *)
(***************************************************************************)
MaxOrderCands == 3

OrderAmountCandidates ==
    {[c EXCEPT !.value = v] : c \in AmountCandidates, v \in {6000, 1413}}

OrderSamples(f) ==
    IF f = "amount" THEN OrderAmountCandidates ELSE VendorCandidates

\* the orders in which n candidates can be listed
ListingOrders(n) ==
    {p \in [1..n -> 1..n] : \A i, j \in 1..n : i # j => p[i] # p[j]}

InitOrder ==
    /\ InitParser
    /\ stage = "candidates"
    /\ \E f \in {"amount", "vendor"} :
          \E n \in 0..MaxOrderCands :
              \E cs \in [1..n -> OrderSamples(f)] :
                  doc = [field |-> f, candidates |-> cs, first |-> None,
                         reordered |-> FALSE]
    /\ result = EmptyResult
    /\ debug = EmptyDebug
    /\ selected = None

\* the same candidates are listed in another order
Reorder ==
    /\ stage = "selected"
    /\ ~ doc.reordered
    /\ \E p \in ListingOrders(Len(doc.candidates)) :
          doc' = [doc EXCEPT
                     !.candidates = [i \in 1..Len(doc.candidates) |->
                                        doc.candidates[p[i]]],
                     !.first = selected,
                     !.reordered = TRUE]
    /\ stage' = "candidates"
    /\ selected' = None
    /\ UNCHANGED <<result, debug>>
    /\ UNCHANGED parserVars

NextOrder ==
    \/ ExtractSelect
    \/ Reorder

SpecOrder == InitOrder /\ [][NextOrder]_vars

\* the value of a selection
SelectedValue(s) == IF s = None THEN None ELSE Some(s[1].value)

\* C25: the value selected from a reordering of a candidate list is the
\* value selected from the list.
C25_SelectionIgnoresOrder ==
    (stage = "selected" /\ doc.reordered)
        => SelectedValue(selected) = SelectedValue(doc.first)

(***************************************************************************)
(* SpecForward: score_vendor_candidate applied to a candidate of a message *)
(* that is flagged as forwarded and of one that is not.  The scorer has    *)
(* the candidate as its only parameter.                                    *)
(***************************************************************************)
ForwardCandidates ==
    {[value |-> IF person THEN "John Smith" ELSE "Apple Store",
      pattern_name |-> pattern,
      from_email_header |-> header, from_subject |-> FALSE,
      has_company_suffix |-> FALSE, is_title_case |-> TRUE,
      line_position |-> line, word_count |-> 2,
      looks_like_person |-> person] :
        header \in BOOLEAN, person \in BOOLEAN, line \in {0, 1, 2, 3, 30},
        pattern \in {"context_sender_name", "early_line"}}

\* the score of a candidate of a message with the given forwarding flag
ScoreVendorInMessage(candidate, is_forwarded) == ScoreVendorCandidate(candidate)

InitForward ==
    /\ InitParser
    /\ stage = "candidates"
    /\ \E c \in ForwardCandidates : doc = [candidate |-> c, scores |-> << >>]
    /\ result = EmptyResult
    /\ debug = EmptyDebug
    /\ selected = None

\* the candidate is scored for a message
ScoreVendorCall ==
    /\ stage = "candidates"
    /\ \E is_forwarded \in BOOLEAN \ DOMAIN doc.scores :
          doc' = [doc EXCEPT !.scores =
                     Put(@, is_forwarded,
                         ScoreVendorInMessage(doc.candidate, is_forwarded))]
    /\ UNCHANGED <<stage, result, debug, selected>>
    /\ UNCHANGED parserVars

NextForward == ScoreVendorCall

SpecForward == InitForward /\ [][NextForward]_vars

\* C26: a candidate from an email header with the shape of a personal name
\* is scored strictly lower for a forwarded message than for a message
\* that is not forwarded.
C26_PenaltyOnlyWhenForwarded ==
    (/\ doc.candidate.from_email_header
     /\ doc.candidate.looks_like_person
     /\ DOMAIN doc.scores = BOOLEAN)
        => doc.scores[TRUE] < doc.scores[FALSE]

(***************************************************************************)
(* More claims about extract_tax, under SpecTax.                           *)
(***************************************************************************)
\* the spans whose value extract_tax adds to the sum
CountedSpans(lines) ==
    {s \in CapturedSpans(lines) : AmountGroup(lines, s) > 0}

\* a captured span runs from its start to the end of the number of its line
SpansOverlap(s, t) == s.line = t.line

\* C27: no two different spans whose values are added to the tax overlap.
C27_CountedSpansDisjoint ==
    (stage = "returned" /\ result.tax # None)
        => /\ debug.patterns_matched.tax = Cardinality(CountedSpans(doc.lines))
           /\ \A s, t \in CountedSpans(doc.lines) : SpansOverlap(s, t) => s = t

(***************************************************************************)
(* SpecDate: the locale, the candidate and its score in extract_date, for  *)
(* a text with one date.  A text is described by the locale indicator it   *)
(* contains, the line and the prefix of the date and the pattern that      *)
(* matches it; the context by its user_locale.  The date patterns have no  *)
(* priority, so a candidate has priority 100.                              *)
(***************************************************************************)
DateTexts ==
    [user_locale : {None, Some("EU"), Some("US")},
     indicator : {"none", "gst", "vat", "pound"},
     line_position : {0, 10, 20, 21},
     has_strong_prefix : BOOLEAN,
     pattern_name : {"numeric_date_ambiguous", "month_name_date"}]

\* _detect_date_locale
DetectDateLocale(indicator) ==
    IF indicator = "gst" THEN "MM/DD"
    ELSE IF indicator \in {"pound", "vat"} THEN "DD/MM"
    ELSE "MM/DD"

InitDate ==
    /\ InitParser
    /\ stage = "date_text"
    /\ \E t \in DateTexts : doc = [text |-> t, locale |-> None, candidate |-> None]
    /\ result = EmptyResult
    /\ debug = EmptyDebug
    /\ selected = None

\* extract_date: the locale for ambiguous dates
DateLocale ==
    /\ stage = "date_text"
    /\ doc' = [doc EXCEPT !.locale =
                  Some(IF doc.text.user_locale # None
                       THEN (IF doc.text.user_locale = Some("EU")
                             THEN "DD/MM" ELSE "MM/DD")
                       ELSE DetectDateLocale(doc.text.indicator))]
    /\ stage' = "date_locale"
    /\ UNCHANGED <<result, debug, selected>>
    /\ UNCHANGED parserVars

\* extract_date: create_date_candidate for the match
CreateDateCandidate ==
    /\ stage = "date_locale"
    /\ LET is_ambiguous == doc.text.pattern_name = "numeric_date_ambiguous"
       IN  doc' = [doc EXCEPT !.candidate =
                      Some([pattern_name |-> doc.text.pattern_name,
                            priority |-> 100,
                            line_position |-> doc.text.line_position,
                            has_strong_prefix |-> doc.text.has_strong_prefix,
                            is_ambiguous |-> is_ambiguous,
                            detected_locale |-> IF is_ambiguous THEN doc.locale
                                                ELSE None])]
    /\ stage' = "date_candidate"
    /\ UNCHANGED <<result, debug, selected>>
    /\ UNCHANGED parserVars

\* select_best_date: score_date_candidate(candidate)
ScoreDateCall ==
    /\ stage = "date_candidate"
    /\ selected' = Some(ScoreDateCandidate(doc.candidate[1]))
    /\ stage' = "date_scored"
    /\ UNCHANGED <<doc, result, debug>>
    /\ UNCHANGED parserVars

NextDate ==
    \/ DateLocale
    \/ CreateDateCandidate
    \/ ScoreDateCall

SpecDate == InitDate /\ [][NextDate]_vars

\* C28: an ambiguous numeric date candidate of a text with no locale
\* indicator, parsed without a user_locale, scores lower than the same
\* candidate with a resolved locale.
C28_UnresolvedLocalePenalized ==
    (/\ stage = "date_scored"
     /\ doc.candidate[1].is_ambiguous
     /\ doc.text.user_locale = None
     /\ doc.text.indicator = "none")
        => selected[1] < ScoreDateCandidate(
                             [doc.candidate[1] EXCEPT !.detected_locale = Some("DD/MM")])

(***************************************************************************)
(* More claims about extract_currency, under SpecCurrency.                 *)
(***************************************************************************)
\* the base of score_currency_candidate
CurrencyBase(c) == IF c.is_explicit THEN 900000 ELSE 600000

\* C29: the score of every candidate extract_currency builds is not below
\* its base (the bonuses are 0 or more) and not above the base plus the
\* largest repetition and proximity bonuses, clamped to 1.
C29_CurrencyScoreAtLeastBase ==
    \A i \in DOMAIN doc.candidates :
        LET c == doc.candidates[i]
            score == ScoreCurrencyCandidate(c)
        IN  /\ score >= CurrencyBase(c)
            /\ score <= Min(1000000, CurrencyBase(c) + 300000 + 100000)

(***************************************************************************)
(* More claims about extract_amount, under SpecAmount.                     *)
(***************************************************************************)
\* the amount patterns whose regular expression requires a keyword such as
\* 'total', 'grand total', 'amount paid' or 'amount due' before the number;
\* those of amount_currency_code, currency_symbol and euro_spaced are a
\* number and a currency code or symbol
RegexRequiresKeyword(pattern_name) ==
    pattern_name \in {"explicit_payment", "markdown_bold_total", "order_summary_pipe",
                      "total_pipe_cad", "total_cad_format", "table_pipe_currency",
                      "markdown_bold_pipe", "total_strong_context", "generic_total"}

\* the matches extract_amount makes a candidate of
KeptMatches(matches) ==
    LET Kept(m) == ~ (m.amount <= 0 \/ (m.amount > 1000000 /\ m.spec.priority > 2))
    IN  SelectSeq(matches, Kept)

\* C30: a candidate of a pattern whose regex requires a keyword has
\* has_strong_prefix; a candidate of any other pattern has it exactly when
\* a strong keyword stands at the line start within 15 characters before
\* the match.
C30_StrongExactlyForKeywordPatterns ==
    stage = "amount_candidates" =>
        \A i \in DOMAIN doc.candidates :
            LET c == doc.candidates[i]
                m == KeptMatches(doc.matches)[i]
            IN  IF RegexRequiresKeyword(c.pattern_name)
                THEN c.has_strong_prefix
                ELSE c.has_strong_prefix = m.context.strong_before

=============================================================================
